---- MODULE Spec2Model ----
(***************************************************************************)
(* Pax-Historia: the world-state reducer of src/App.tsx (AppContent) and   *)
(* the GameUI callers that drive it.                                       *)
(*                                                                         *)
(* gameState is the React state of AppContent; gameStateRef.current is     *)
(* taken to be equal to it (the effect of App.tsx:54-56 runs after every   *)
(* render, before the next task).  Every handler that awaits an oracle     *)
(* (a network call) is split at the await: the part before it and the      *)
(* continuation after it are separate actions, and other handlers may      *)
(* run in between.  A stretch of a handler with no network await runs      *)
(* without interleaving.                                                   *)
(*                                                                         *)
(* Numbers: population is kept in tenths of a million (the code's floor    *)
(* 0.1 is 1 here); every other statistic is an integer as in the data.     *)
(***************************************************************************)
EXTENDS Integers, Sequences, FiniteSets, TLC

VARIABLES
    gameState,     \* App.tsx:47   useState<GameState>
    gamePhase,     \* App.tsx:49   useState<GamePhase>; "CRASHED" once a state
                   \* updater has thrown while rendering (the tree is unmounted)
    isSimulating,  \* GameUI.tsx:142
    fold,          \* GameUI.handleSimulate and the handleNewEvents call it makes
    deploy,        \* the running handleDeployUnit call (App.tsx:439-508)
    order,         \* the running handleUnitOrder call (App.tsx:510-585)
    advances,      \* advanceChatTurn calls awaiting getGroupChatTurn
    timers,        \* setTimeout(() => advanceChatTurn(chatId, false), ...) pending
    clock,         \* the last value Date.now() returned
    lastStep,      \* history: the handler step taken last
    removed        \* history: the unit ids a handler has removed so far

vars == <<gameState, gamePhase, isSimulating, fold, deploy, order,
          advances, timers, clock, lastStep, removed>>

-----------------------------------------------------------------------------
(* Bounds of the model *)

\* number of yearly batches folded
MaxTurns == 2
\* longest batch the simulation oracle returns
MaxBatch == 2
\* values Date.now() may hand out
MaxClock == 3
\* chats created in one run
MaxChats == 1
\* messages of one chat
MaxMessages == 1
\* turn-advance calls in flight or scheduled at once
MaxAdvances == 1
\* units one deployment brief proposes
MaxProposed == 2
MaxSends == 2
MaxInvited == 1
\* units a SPLIT makes of one
SplitParts == 2
MaxOrders == 1

-----------------------------------------------------------------------------
(* Values *)

undefined == "undefined"
null == "null"
Unclaimed == "Unclaimed"

USA == "United States of America"
Georgia == "Georgia"
Texas == "Texas"
RepublicOfTexas == "Republic of Texas"
Mordor == "Mordor"

ARMY == "ARMY"
NAVY == "NAVY"
AIR_FORCE == "AIR_FORCE"
UnitType == {ARMY, NAVY, AIR_FORCE}

EpochYear == 2024

Range(s) == {s[i] : i \in DOMAIN s}

Reverse(s) == [i \in 1..Len(s) |-> s[Len(s) + 1 - i]]

Max(a, b) == IF a >= b THEN a ELSE b
Min(a, b) == IF a <= b THEN a ELSE b

\* sequences over S of length at most n
SeqUpTo(S, n) == UNION {[1..k -> S] : k \in 0..n}

-----------------------------------------------------------------------------
(* The geography the game is built from: the features of the two atlases,  *)
(* in file order.  A world feature is its name; a us feature is <<id,name>> *)

WorldFeatures == <<USA, Georgia, "Antarctica">>
UsFeatures == <<<<"48", Texas>>, <<"13", Georgia>>>>

UsTerritoryId(f) == "USA-" \o f[1]

\* Object.values(territories): insertion order of generateInitialGameState
TerritoryOrder ==
    WorldFeatures \o [i \in 1..Len(UsFeatures) |-> UsTerritoryId(UsFeatures[i])]

TerritoryIds == Range(TerritoryOrder)

\* REAL_WORLD_DATA, with the hash fallback of simpleHash for the names absent
\* from it (simpleHash("Georgia") = 1585805502)
BaselineStats(name) ==
    IF name = USA
    THEN [gdp |-> 27360, population |-> 3330, stability |-> 75,
          militaryStrength |-> 100, militaryTech |-> 10]
    ELSE [gdp |-> 10 + 102, population |-> 10 * (1 + 2), stability |-> 30 + 42,
          militaryStrength |-> 10 + 22, militaryTech |-> 1 + 2]

NewCountry(name, stats) ==
    [name |-> name, gdp |-> stats.gdp, population |-> stats.population,
     stability |-> stats.stability, resources |-> {},
     militaryStrength |-> stats.militaryStrength,
     militaryTech |-> stats.militaryTech]

\* the territories, had Antarctica been taken for a country like the others
InitialTerritoriesWithAntarcticaOwned ==
    [id \in TerritoryIds |->
        IF id \in Range(WorldFeatures)
        THEN [id |-> id, name |-> id, parentCountryName |-> id, owner |-> id]
        ELSE LET f == CHOOSE f \in Range(UsFeatures) : UsTerritoryId(f) = id
             IN  [id |-> id, name |-> f[2], parentCountryName |-> USA, owner |-> USA]]

InitialTerritories ==
    [id \in TerritoryIds |->
        IF id = "Antarctica"
        THEN [id |-> id, name |-> id, parentCountryName |-> Unclaimed, owner |-> Unclaimed]
        ELSE IF id \in Range(WorldFeatures)
        THEN [id |-> id, name |-> id, parentCountryName |-> id, owner |-> id]
        ELSE LET f == CHOOSE f \in Range(UsFeatures) : UsTerritoryId(f) = id
             IN  [id |-> id, name |-> f[2], parentCountryName |-> USA, owner |-> USA]]

InitialCountries ==
    LET names == {InitialTerritories[id].parentCountryName : id \in TerritoryIds}
                 \ {Unclaimed}
    IN  [n \in names |-> NewCountry(n, BaselineStats(n))]

\* INITIAL_CITIES, cut to the territories of this geography
InitialCities ==
    <<[id |-> <<"Tbilisi", Georgia, 0>>, name |-> "Tbilisi", territoryId |-> Georgia,
       isCapital |-> TRUE]>>

\* the default deployment ceiling of a fresh arsenal entry
DefaultMaxUnits == 1

InitialArsenal ==
    [c \in DOMAIN InitialCountries |->
        [t \in UnitType |-> [maxUnits |-> DefaultMaxUnits, unitNames |-> <<>>]]]

generateInitialGameState ==
    [territories |-> InitialTerritories,
     countries |-> InitialCountries,
     cities |-> InitialCities,
     playerCountryName |-> null,
     year |-> EpochYear,
     events |-> <<>>,
     chats |-> <<>>,
     pendingInvitations |-> <<>>,
     militaryUnits |-> <<>>,
     arsenal |-> InitialArsenal]

-----------------------------------------------------------------------------
(* World events *)

\* An optional field of an event or an effect is present when its name is in
\* `has`; an absent field holds a filler of its type, which nothing reads.
Has(r, field) == field \in r.has

\* an economicEffects entry with no optional field
Effect(country) ==
    [country |-> country, has |-> {}, gdpChange |-> 0, populationChange |-> 0,
     stabilityChange |-> 0, militaryStrengthChange |-> 0, newResources |-> <<>>]

\* a WorldEvent with only its required fields
Ev(type, countries, description) ==
    [type |-> type, countries |-> countries, description |-> description,
     date |-> <<>>,
     has |-> {},
     territoryNames |-> <<>>, newCountryName |-> "",
     economicEffects |-> <<>>,
     cityName |-> "", newCityName |-> "", territoryForNewCity |-> "",
     newCityCoordinates |-> 0,
     chatInitiator |-> "", chatParticipants |-> <<>>,
     unitType |-> "", locationDescription |-> "",
     newUnitName |-> "", maxUnitChange |-> 0, unitId |-> <<>>]

\* the event with an optional field given
With(event, field, value) ==
    [[event EXCEPT !.has = @ \cup {field}] EXCEPT ![field] = value]

-----------------------------------------------------------------------------
(* handleNewEvents: the pieces of the fold *)

\* the first value of Object.values(territories) whose name is `name`
FindTerritory(territories, name) ==
    LET hits == {i \in 1..Len(TerritoryOrder) : territories[TerritoryOrder[i]].name = name}
    IN  IF hits = {} THEN undefined
        ELSE TerritoryOrder[CHOOSE i \in hits : \A j \in hits : i <= j]

\* Floor without the floor
FloorDropped(lo, value) == value

\* Math.max(lo, value): the floor of a statistic
Floor(lo, value) == Max(lo, value)

\* Math.max(0, Math.min(100, value))
ClampStability(value) == Max(0, Min(100, value))

UpdatedCountry(c, effect) ==
    [c EXCEPT
        !.gdp = IF Has(effect, "gdpChange")
                THEN Floor(1, @ + effect.gdpChange) ELSE @,
        !.population = IF Has(effect, "populationChange")
                       THEN Floor(1, @ + effect.populationChange) ELSE @,
        !.stability = IF Has(effect, "stabilityChange")
                      THEN ClampStability(@ + effect.stabilityChange) ELSE @,
        !.militaryStrength = IF Has(effect, "militaryStrengthChange")
                             THEN Floor(0, @ + effect.militaryStrengthChange) ELSE @,
        !.resources = IF Has(effect, "newResources")
                      THEN @ \cup Range(effect.newResources) ELSE @]

\* the effects loop, had it stopped at the first country it does not find
RECURSIVE ApplyEffectsUntilUnknown(_, _)
ApplyEffectsUntilUnknown(countries, effects) ==
    IF effects = <<>> THEN countries
    ELSE IF Head(effects).country \notin DOMAIN countries THEN countries
    ELSE ApplyEffectsUntilUnknown(
            [countries EXCEPT ![Head(effects).country] = UpdatedCountry(@, Head(effects))],
            Tail(effects))

RECURSIVE ApplyEffects(_, _)
ApplyEffects(countries, effects) ==
    IF effects = <<>> THEN countries
    ELSE LET effect == Head(effects)
             next == IF effect.country \in DOMAIN countries
                     THEN [countries EXCEPT ![effect.country] = UpdatedCountry(@, effect)]
                     ELSE countries
         IN  ApplyEffects(next, Tail(effects))

processEconomicEffects(state, event) ==
    IF ~Has(event, "economicEffects") THEN state
    ELSE [state EXCEPT !.countries = ApplyEffects(@, event.economicEffects)]

\* territoryNames.forEach(name => ... owner: newOwner)
RECURSIVE ReassignNamed(_, _, _)
ReassignNamed(territories, names, newOwner) ==
    IF names = <<>> THEN territories
    ELSE LET id == FindTerritory(territories, Head(names))
             next == IF id = undefined THEN territories
                     ELSE [territories EXCEPT ![id].owner = newOwner]
         IN  ReassignNamed(next, Tail(names), newOwner)

\* the ANNEXATION handler, had it given the territories to the second country
AnnexationForSecondCountry(state, event) ==
    IF Len(event.countries) # 2 THEN state
    ELSE IF Has(event, "territoryNames") /\ Len(event.territoryNames) > 0
    THEN [state EXCEPT !.territories =
            ReassignNamed(@, event.territoryNames, event.countries[2])]
    ELSE state

\* the ANNEXATION handler without its test of the number of countries
AnnexationOfAnyNumber(state, event) ==
    IF Len(event.countries) < 2 THEN state
    ELSE IF Has(event, "territoryNames") /\ Len(event.territoryNames) > 0
    THEN [state EXCEPT !.territories =
            ReassignNamed(@, event.territoryNames, event.countries[1])]
    ELSE [state EXCEPT !.territories =
            [id \in DOMAIN @ |->
                IF @[id].owner = event.countries[2]
                THEN [@[id] EXCEPT !.owner = event.countries[1]]
                ELSE @[id]]]

Annexation(state, event) ==
    IF Len(event.countries) # 2 THEN state
    ELSE LET aggressorName == event.countries[1]
             targetCountryName == event.countries[2]
         IN  IF Has(event, "territoryNames") /\ Len(event.territoryNames) > 0
             THEN [state EXCEPT !.territories =
                        ReassignNamed(@, event.territoryNames, aggressorName)]
             ELSE [state EXCEPT !.territories =
                        [id \in DOMAIN @ |->
                            IF @[id].owner = targetCountryName
                            THEN [@[id] EXCEPT !.owner = aggressorName]
                            ELSE @[id]]]

\* Math.abs of the hash loop of App.tsx:196-197 (and 116-120), for the names
\* this model forms or secedes, reduced modulo 1800: every modulus the code
\* takes of the hash divides 1800.  The hashes are 5787487252 ("Republic of
\* Texas"), 80703097 ("Texas") and 1585805502 ("Georgia").
NameHash(name) ==
    CASE name = RepublicOfTexas -> 1252
      [] name = Texas -> 97
      [] name = Georgia -> 102
      [] OTHER -> 0

FormationStats(name) ==
    LET hash == NameHash(name)
    IN  [gdp |-> 5 + (hash % 45), population |-> 10 * (1 + (hash % 10)),
         stability |-> 40 + (hash % 20), militaryStrength |-> 5 + (hash % 15),
         militaryTech |-> 1 + (hash % 4)]

\* the COUNTRY_FORMATION handler without its test that the country is new
CountryFormationAnew(state, event) ==
    IF ~Has(event, "newCountryName") \/ ~Has(event, "territoryNames") THEN state
    ELSE LET name == event.newCountryName
         IN  [state EXCEPT
                !.countries = (name :> NewCountry(name, FormationStats(name))) @@ @,
                !.territories = ReassignNamed(@, event.territoryNames, name)]

CountryFormation(state, event) ==
    IF ~Has(event, "newCountryName") \/ ~Has(event, "territoryNames") THEN state
    ELSE LET name == event.newCountryName
             countries == IF name \in DOMAIN state.countries THEN state.countries
                          ELSE state.countries @@ (name :> NewCountry(name, FormationStats(name)))
         IN  [state EXCEPT !.countries = countries,
                           !.territories = ReassignNamed(@, event.territoryNames, name)]

CityFounded(state, event, now) ==
    IF \/ ~Has(event, "newCityName") \/ ~Has(event, "territoryForNewCity")
       \/ ~Has(event, "newCityCoordinates")
    THEN state
    ELSE LET id == FindTerritory(state.territories, event.territoryForNewCity)
         IN  IF id = undefined THEN state
             ELSE [state EXCEPT !.cities = Append(@,
                        [id |-> <<event.newCityName, "", now>>,
                         name |-> event.newCityName, territoryId |-> id,
                         isCapital |-> FALSE])]

\* a renaming that leaves the id as it was
CityRenamedKeepingId(state, event) ==
    IF ~Has(event, "cityName") \/ ~Has(event, "newCityName") THEN state
    ELSE [state EXCEPT !.cities =
            [i \in DOMAIN state.cities |->
                LET city == state.cities[i]
                IN  IF city.name = event.cityName
                    THEN [city EXCEPT !.name = event.newCityName]
                    ELSE city]]

CityRenamed(state, event) ==
    IF ~Has(event, "cityName") \/ ~Has(event, "newCityName") THEN state
    ELSE [state EXCEPT !.cities =
            [i \in DOMAIN state.cities |->
                LET city == state.cities[i]
                IN  IF city.name = event.cityName
                    THEN [city EXCEPT !.name = event.newCityName,
                                      !.id = <<event.newCityName, city.territoryId, 0>>]
                    ELSE city]]

CityDestroyed(state, event) ==
    IF ~Has(event, "cityName") THEN state
    ELSE [state EXCEPT !.cities = SelectSeq(@, LAMBDA city : city.name # event.cityName)]

ManufactureComplete(state, event) ==
    IF Len(event.countries) < 1 \/ ~Has(event, "unitType") THEN state
    ELSE LET countryName == event.countries[1]
         IN  IF countryName \notin DOMAIN state.arsenal THEN state
             ELSE [state EXCEPT !.arsenal[countryName][event.unitType] =
                    [unitNames |-> IF Has(event, "newUnitName")
                                   THEN Append(@.unitNames, event.newUnitName)
                                   ELSE @.unitNames,
                     maxUnits |-> IF Has(event, "maxUnitChange")
                                  THEN @.maxUnits + event.maxUnitChange
                                  ELSE @.maxUnits]]

Without(f, keys) == [k \in DOMAIN f \ keys |-> f[k]]

ScrapUnit(state, event) ==
    IF Has(event, "unitId") /\ event.unitId \in DOMAIN state.militaryUnits
    THEN [state EXCEPT !.militaryUnits = Without(@, {event.unitId})]
    ELSE state

\* eventHandlers[event.type] for the handlers that do not await
SyncHandler(state, event, now) ==
    CASE event.type = "ANNEXATION" -> Annexation(state, event)
      [] event.type = "COUNTRY_FORMATION" -> CountryFormation(state, event)
      [] event.type = "CITY_FOUNDED" -> CityFounded(state, event, now)
      [] event.type = "CITY_RENAMED" -> CityRenamed(state, event)
      [] event.type = "CITY_DESTROYED" -> CityDestroyed(state, event)
      [] event.type = "MANUFACTURE_COMPLETE" -> ManufactureComplete(state, event)
      [] event.type = "SCRAP_UNIT" -> ScrapUnit(state, event)
      [] OTHER -> state

UnitCount(militaryUnits, owner, type) ==
    Cardinality({id \in DOMAIN militaryUnits :
                    militaryUnits[id].owner = owner /\ militaryUnits[id].type = type})

\* arsenal[countryName]?.[unitType]?.maxUnits ?? 0
MaxUnitsOrZero(arsenal, countryName, unitType) ==
    IF countryName \in DOMAIN arsenal THEN arsenal[countryName][unitType].maxUnits ELSE 0

\* DEPLOY_UNIT up to its await: TRUE when the handler goes on to call the oracle
DeployUnitCallsOracle(state, event) ==
    /\ Len(event.countries) >= 1
    /\ event.countries[1] \in DOMAIN state.countries
    /\ Has(event, "unitType")
    /\ Has(event, "locationDescription")
    /\ UnitCount(state.militaryUnits, event.countries[1], event.unitType)
         < MaxUnitsOrZero(state.arsenal, event.countries[1], event.unitType)

\* a MilitaryUnit made from an oracle-proposed unit of type `type`
NewUnit(id, owner, type) ==
    [id |-> id, owner |-> owner, type |-> type, name |-> "Unnamed Unit",
     coordinates |-> 0, leader |-> "Unknown", composition |-> <<>>, strength |-> 0,
     currentOrder |-> "Awaiting orders.", ordersLog |-> <<>>]

\* DEPLOY_UNIT after its await: proposed is the unit type of proposedUnits[0],
\* "none" for an empty array, "throw" for a failed call
DeployUnitResume(state, event, proposed, now) ==
    IF proposed \in {"none", "throw"} THEN state
    ELSE LET owner == event.countries[1]
             id == <<owner, proposed, now, -1>>
         IN  [state EXCEPT !.militaryUnits =
                [k \in DOMAIN @ \cup {id} |->
                    IF k = id THEN NewUnit(id, owner, proposed) ELSE @[k]]]

-----------------------------------------------------------------------------
(* State and the handlers of AppContent *)

IdleFold == [pc |-> "idle"]
IdleDeploy == [pc |-> "idle"]
IdleOrder == [pc |-> "idle"]

\* the chat id of a step that is about no chat
NoChat == <<"chat", 0>>

\* a handler step, the chat it is about, and the step it comes after
Step(op, chatId) == [op |-> op, chatId |-> chatId, after |-> lastStep.op]

Init ==
    /\ gameState = generateInitialGameState
    /\ gamePhase = "SELECTION"
    /\ isSimulating = FALSE
    /\ fold = IdleFold
    /\ deploy = IdleDeploy
    /\ order = IdleOrder
    /\ advances = <<>>
    /\ timers = <<>>
    /\ clock = 0
    /\ lastStep = [op |-> "init", chatId |-> NoChat, after |-> "init"]
    /\ removed = {}

\* a handler is in a stretch that does not yield to other tasks
Busy == fold.pc = "running"

\* the game screen is up and no stretch is running: a task may start
Ready == gamePhase = "PLAYING" /\ ~Busy

Player == gameState.playerCountryName

\* what the country selection screen lets the player pick: a country, or a
\* region of a subdivided country (CountrySelectionScreen.tsx:15-35)
Selectable ==
    DOMAIN gameState.countries
    \cup {gameState.territories[id].name : id \in
            {t \in TerritoryIds : gameState.territories[t].parentCountryName = USA}}

\* the new country of a secession; population in tenths, rounded as toFixed(1)
SecessionCountry(name, parent) ==
    LET hash == NameHash(name)
        share == 5 + (hash % 10)
    IN  [name |-> name,
         gdp |-> Floor(1, (parent.gdp * share) \div 100),
         population |-> Floor(1, (parent.population * share + 50) \div 100),
         stability |-> 30 + (hash % 25),
         resources |-> {},
         militaryStrength |-> Floor(1, (parent.militaryStrength * (2 + (hash % 8))) \div 100),
         militaryTech |-> Floor(1, parent.militaryTech - (hash % 2))]

handleCountrySelect(selectionName) ==
    /\ gamePhase = "SELECTION"
    /\ gamePhase' = "PLAYING"
    /\ IF selectionName \in DOMAIN gameState.countries
       THEN gameState' = [gameState EXCEPT !.playerCountryName = selectionName]
       ELSE LET id == FindTerritory(gameState.territories, selectionName)
            IN  IF id = undefined
                   \/ gameState.territories[id].parentCountryName \notin DOMAIN gameState.countries
                THEN gameState' = gameState
                ELSE LET parent == gameState.countries[gameState.territories[id].parentCountryName]
                     IN  gameState' =
                            [gameState EXCEPT
                                !.countries = @ @@ (selectionName :>
                                                SecessionCountry(selectionName, parent)),
                                !.territories[id].owner = selectionName,
                                !.playerCountryName = selectionName]
    /\ lastStep' = Step("handleCountrySelect", NoChat)
    /\ UNCHANGED <<isSimulating, fold, deploy, order, advances, timers, clock, removed>>

\* GameUI.handleSimulate up to its await of simulateWorldEvents
handleSimulate ==
    /\ Ready
    /\ ~isSimulating
    /\ fold.pc = "idle"
    /\ gameState.year < EpochYear + MaxTurns
    /\ isSimulating' = TRUE
    /\ fold' = [pc |-> "awaitSim", year |-> gameState.year]
    /\ lastStep' = Step("handleSimulate", NoChat)
    /\ UNCHANGED <<gameState, gamePhase, deploy, order, advances, timers, clock, removed>>

\* Date.now() calls a batch makes without waiting for an oracle
StampsNeeded(events) ==
    Cardinality({i \in DOMAIN events : events[i].type = "CITY_FOUNDED"})

\* the oracle's batch arrives: handleNewEvents reads the state and clones it.
\* Each event object of the batch is given its identity (ref).
handleNewEvents(events) ==
    /\ gamePhase = "PLAYING"
    /\ fold.pc = "awaitSim"
    /\ clock + StampsNeeded(events) <= MaxClock
    /\ fold' = [pc |-> "running",
                prevState |-> gameState,
                state |-> [territories |-> gameState.territories,
                           countries |-> gameState.countries,
                           cities |-> gameState.cities,
                           militaryUnits |-> gameState.militaryUnits,
                           arsenal |-> gameState.arsenal],
                events |-> [i \in DOMAIN events |->
                              [ref |-> <<gameState.year, i>>] @@ events[i]],
                i |-> 1,
                now |-> 0]
    /\ lastStep' = Step("handleNewEvents", NoChat)
    /\ UNCHANGED <<gameState, gamePhase, isSimulating, deploy, order, advances,
                   timers, clock, removed>>

\* the event simulateWorldEvents returns from its catch: a NARRATIVE with no
\* countries, dated `${gameState.year}-12-31`
SimulationParadox(year) ==
    [Ev("NARRATIVE", <<>>, "The simulation AI encountered a paradox")
        EXCEPT !.date = <<year, 12, 31>>]

\* simulateWorldEvents from the oracle's answer on. A response is
\* [fails, isArray, areEvents, value]: the call or JSON.parse throws (fails);
\* the parsed text is an array or not (isArray); when an array, its elements are
\* event objects or not (areEvents); value is the array of events. Only the
\* first two are looked at: an array is returned as it is.
simulateWorldEvents(response, year) ==
    IF response.fails \/ ~response.isArray
    THEN <<SimulationParadox(year)>>
    ELSE response.value

\* GameUI.handleSimulate after its await of simulateWorldEvents: it awaits
\* onNewEvents(events). Over an array whose elements are not objects
\* handleNewEvents throws on reading e.type in its filter, before anything is
\* written; the catch of handleSimulate logs it and the finally clears
\* isSimulating: nothing is committed.
handleSimulateReturn(response) ==
    IF ~response.fails /\ response.isArray /\ ~response.areEvents
    THEN /\ gamePhase = "PLAYING"
         /\ fold.pc = "awaitSim"
         /\ fold' = IdleFold
         /\ isSimulating' = FALSE
         /\ lastStep' = Step("handleSimulate:catch", NoChat)
         /\ UNCHANGED <<gameState, gamePhase, deploy, order, advances, timers, clock,
                        removed>>
    ELSE handleNewEvents(simulateWorldEvents(response, fold.year))

\* the clone, had it spread the arsenal as it spreads the other maps
CloneAliasingShallowArsenal ==
    [containers |-> {},
     elements |-> {"territories", "countries", "cities", "militaryUnits", "arsenal"}]

\* The objects the clone of App.tsx:151-157 leaves shared between prevState
\* and state: no container (each map is spread, the array copied), and the
\* elements of every container but the arsenal, which is copied in depth.
CloneAliasing ==
    [containers |-> {},
     elements |-> {"territories", "countries", "cities", "militaryUnits"}]

\* the containers of state a step of the loop writes to in place (assigns or
\* deletes a key of, pushes to); CITY_RENAMED and CITY_DESTROYED assign
\* state.cities a new array
ContainerWrites(event) ==
    (IF Has(event, "economicEffects") THEN {"countries"} ELSE {})
    \cup (CASE event.type = "ANNEXATION" -> {"territories"}
            [] event.type = "COUNTRY_FORMATION" -> {"countries", "territories"}
            [] event.type = "CITY_FOUNDED" -> {"cities"}
            [] event.type = "DEPLOY_UNIT" -> {"militaryUnits"}
            [] event.type = "SCRAP_UNIT" -> {"militaryUnits"}
            [] OTHER -> {})

\* the containers whose elements a step of the loop writes to in place:
\* MANUFACTURE_COMPLETE pushes to unitNames and adds to maxUnits
ElementWrites(event) ==
    IF event.type = "MANUFACTURE_COMPLETE" THEN {"arsenal"} ELSE {}

\* prevState after a step that took the fold's state to `state`: a write in
\* place to an object shared with prevState is a write to prevState
SeenThrough(prevState, state, event) ==
    LET through == (CloneAliasing.containers \cap ContainerWrites(event))
                   \cup (CloneAliasing.elements \cap ElementWrites(event))
    IN  [k \in DOMAIN prevState |->
            IF k \in through THEN state[k] ELSE prevState[k]]

\* the event the loop of App.tsx:278 is at
CurrentEvent == Reverse(fold.events)[fold.i]

\* one iteration of the loop, up to the await of a DEPLOY_UNIT that calls the oracle
FoldStep ==
    /\ gamePhase = "PLAYING"
    /\ fold.pc = "running"
    /\ fold.i <= Len(fold.events)
    /\ LET event == CurrentEvent
           afterEffects == processEconomicEffects(fold.state, event)
       IN  IF event.type = "DEPLOY_UNIT"
           THEN /\ fold' = IF DeployUnitCallsOracle(afterEffects, event)
                           THEN [fold EXCEPT !.state = afterEffects, !.pc = "awaitDeploy",
                                             !.now = 0,
                                             !.prevState = SeenThrough(@, afterEffects, event)]
                           ELSE [fold EXCEPT !.state = afterEffects, !.i = @ + 1,
                                             !.prevState = SeenThrough(@, afterEffects, event)]
                /\ clock' = clock
           ELSE IF event.type = "CITY_FOUNDED"
           THEN \E now \in ({fold.now} \ {0}) \cup ({clock + 1} \cap (1..MaxClock)) :
                   /\ fold' = [fold EXCEPT
                                 !.state = SyncHandler(afterEffects, event, now),
                                 !.i = @ + 1, !.now = now,
                                 !.prevState = SeenThrough(@,
                                     SyncHandler(afterEffects, event, now), event)]
                   /\ clock' = Max(clock, now)
           ELSE /\ fold' = [fold EXCEPT
                              !.state = SyncHandler(afterEffects, event, 0),
                              !.i = @ + 1,
                              !.prevState = SeenThrough(@,
                                  SyncHandler(afterEffects, event, 0), event)]
                /\ clock' = clock
    /\ lastStep' = Step("handleNewEvents:event", NoChat)
    /\ UNCHANGED <<gameState, gamePhase, isSimulating, deploy, order, advances, timers,
                   removed>>

\* generateDeploymentFromBrief returns to the DEPLOY_UNIT handler
FoldDeployReturn(proposed) ==
    /\ gamePhase = "PLAYING"
    /\ fold.pc = "awaitDeploy"
    /\ IF proposed \in UnitType
       THEN clock < MaxClock /\ clock' = clock + 1
       ELSE clock' = clock
    /\ fold' = [fold EXCEPT
                  !.state = DeployUnitResume(@, CurrentEvent, proposed, clock'),
                  !.prevState = SeenThrough(@,
                      DeployUnitResume(fold.state, CurrentEvent, proposed, clock'),
                      CurrentEvent),
                  !.i = @ + 1, !.pc = "running",
                  !.now = IF proposed \in UnitType THEN clock' ELSE 0]
    /\ lastStep' = Step("handleNewEvents:deployed", NoChat)
    /\ UNCHANGED <<gameState, gamePhase, isSimulating, deploy, order, advances, timers,
                   removed>>

\* Committed with the year advanced once per event of the batch
CommittedYearPerEvent(prevState, state, events) ==
    [prevState EXCEPT
        !.territories = state.territories,
        !.countries = state.countries,
        !.cities = state.cities,
        !.militaryUnits = state.militaryUnits,
        !.arsenal = state.arsenal,
        !.events = events \o prevState.events,
        !.year = prevState.year + Len(events),
        !.pendingInvitations =
            prevState.pendingInvitations
            \o SelectSeq(events, LAMBDA e : e.type = "CHAT_INVITATION")]

\* the state handleNewEvents hands to setGameState (App.tsx:286-292)
Committed(prevState, state, events) ==
    [prevState EXCEPT
        !.territories = state.territories,
        !.countries = state.countries,
        !.cities = state.cities,
        !.militaryUnits = state.militaryUnits,
        !.arsenal = state.arsenal,
        !.events = events \o prevState.events,
        !.year = prevState.year + 1,
        !.pendingInvitations =
            prevState.pendingInvitations
            \o SelectSeq(events, LAMBDA e : e.type = "CHAT_INVITATION")]

\* the loop is over: commit, and GameUI.handleSimulate clears isSimulating
FoldCommit ==
    /\ gamePhase = "PLAYING"
    /\ fold.pc = "running"
    /\ fold.i > Len(fold.events)
    /\ gameState' = Committed(fold.prevState, fold.state, fold.events)
    /\ fold' = IdleFold
    /\ isSimulating' = FALSE
    /\ lastStep' = Step("handleNewEvents:commit", NoChat)
    /\ removed' = removed \cup (DOMAIN fold.prevState.militaryUnits
                                  \ DOMAIN fold.state.militaryUnits)
    /\ UNCHANGED <<gamePhase, deploy, order, advances, timers, clock>>

-----------------------------------------------------------------------------
(* The player's deployments and unit orders *)

\* proposedCounts[type] of App.tsx:454-457
ProposedCount(proposed, type) ==
    Cardinality({i \in DOMAIN proposed : proposed[i] = type})

\* the validation loop of App.tsx:459-477 over the state the handler closed over
DeploymentFits(state, countryName, proposed) ==
    \A type \in Range(proposed) :
        UnitCount(state.militaryUnits, countryName, type) + ProposedCount(proposed, type)
            <= state.arsenal[countryName][type].maxUnits

\* newUnits of App.tsx:479-490: one unit per proposal, keyed by its id
DeployedUnits(countryName, proposed, now) ==
    LET ids == {<<countryName, proposed[i], now, i - 1>> : i \in DOMAIN proposed}
    IN  [id \in ids |-> NewUnit(id, countryName, id[2])]

\* GameUI.handleDeploy: handleDeployUnit up to its await
handleDeployUnit ==
    /\ Ready
    /\ ~isSimulating
    /\ deploy.pc = "idle"
    /\ Player \in DOMAIN gameState.countries
    /\ isSimulating' = TRUE
    /\ deploy' = [pc |-> "await", gameState |-> gameState]
    /\ lastStep' = Step("handleDeployUnit", NoChat)
    /\ UNCHANGED <<gameState, gamePhase, fold, order, advances, timers, clock, removed>>

\* generateDeploymentFromBrief returns the proposed units (their types)
handleDeployUnitReturn(proposed) ==
    /\ Ready
    /\ deploy.pc = "await"
    /\ LET closed == deploy.gameState
           countryName == closed.playerCountryName
       IN  IF \/ proposed = <<>>
              \/ countryName \notin DOMAIN closed.arsenal
              \/ ~DeploymentFits(closed, countryName, proposed)
           THEN gameState' = gameState /\ clock' = clock
           ELSE /\ clock < MaxClock
                /\ clock' = clock + 1
                /\ gameState' = [gameState EXCEPT !.militaryUnits =
                        DeployedUnits(countryName, proposed, clock') @@ @]
    /\ deploy' = IdleDeploy
    /\ isSimulating' = FALSE
    /\ lastStep' = Step("handleDeployUnit:return", NoChat)
    /\ UNCHANGED <<gamePhase, fold, order, advances, timers, removed>>

\* generateDeploymentFromBrief throws: the catch of App.tsx:505-507
handleDeployUnitFails ==
    /\ Ready
    /\ deploy.pc = "await"
    /\ deploy' = IdleDeploy
    /\ isSimulating' = FALSE
    /\ lastStep' = Step("handleDeployUnit:catch", NoChat)
    /\ UNCHANGED <<gameState, gamePhase, fold, order, advances, timers, clock, removed>>

\* entries an ordersLog keeps
OrdersLogLimit == 10

\* a UnitActionOutcome with only its required fields
Outcome(actionType) ==
    [actionType |-> actionType, has |-> {}, unitIdsToRemove |-> {},
     newUnitsToCreate |-> <<>>, mergedUnit |-> <<>>]

\* a unit as the oracle describes it in newUnitsToCreate and mergedUnit
\* (partialMilitaryUnitSchema)
PartialUnit(name, leader, composition, strength) ==
    [name |-> name, leader |-> leader, composition |-> composition, strength |-> strength]

\* { ...partialUnit, ...overrides } on a unit record
Spread(unit, partialUnit) ==
    [k \in DOMAIN unit |-> IF k \in DOMAIN partialUnit THEN partialUnit[k] ELSE unit[k]]

\* updateLog of App.tsx:523-527
updateLog(targetUnit, newOrder, year) ==
    [targetUnit EXCEPT
        !.currentOrder = newOrder,
        !.ordersLog = SubSeq(<<[year |-> year, order |-> newOrder]>> \o @, 1,
                             Min(OrdersLogLimit, Len(@) + 1))]

\* a SPLIT that leaves the new units where units are deployed
SplitUnitsAtOrigin(unit, partialUnits, now, year) ==
    LET ids == {<<unit.owner, "split", now, i - 1>> : i \in DOMAIN partialUnits}
    IN  [id \in ids |->
            [Spread(NewUnit(id, unit.owner, unit.type), partialUnits[id[4] + 1]) EXCEPT
                !.ordersLog = <<[year |-> year, order |-> "Formed from split command"]>>]]

\* the units a SPLIT makes (App.tsx:541-552): the oracle's partial unit, then
\* the owner, type and coordinates of the unit the handler read before its await
SplitUnits(unit, partialUnits, now, year) ==
    LET ids == {<<unit.owner, "split", now, i - 1>> : i \in DOMAIN partialUnits}
    IN  [id \in ids |->
            [Spread(NewUnit(id, unit.owner, unit.type), partialUnits[id[4] + 1]) EXCEPT
                !.coordinates = unit.coordinates,
                !.ordersLog = <<[year |-> year, order |-> "Formed from split command"]>>]]

\* the unit a MERGE makes (App.tsx:561-571)
MergedUnit(unit, mergedUnitData, newOrder, now, year) ==
    LET id == <<unit.owner, "merged", now, -1>>
    IN  id :> [Spread(NewUnit(id, unit.owner, unit.type), mergedUnitData) EXCEPT
                  !.coordinates = unit.coordinates,
                  !.currentOrder = newOrder,
                  !.ordersLog = <<[year |-> year, order |-> newOrder]>>]

\* TRUE when the updater of App.tsx:518-584 throws: updateLog spreads the
\* ordersLog of a unit the state no longer holds
UpdaterThrows(prev, unitId, outcome) ==
    /\ outcome.actionType \in {"RELOCATE", "RETREAT"}
    /\ Has(outcome, "newCoordinates")
    /\ unitId \notin DOMAIN prev.militaryUnits

\* the militaryUnits the updater of App.tsx:518-584 returns
OrderedUnits(prev, unit, unitId, newOrder, outcome, now) ==
    LET units == prev.militaryUnits
    IN  CASE outcome.actionType \in {"RELOCATE", "RETREAT"} ->
                IF Has(outcome, "newCoordinates")
                THEN [units EXCEPT ![unitId] =
                        updateLog([@ EXCEPT !.coordinates = 1], newOrder, prev.year)]
                ELSE units
          [] outcome.actionType = "SPLIT" ->
                IF /\ Has(outcome, "unitIdsToRemove")
                   /\ unitId \in outcome.unitIdsToRemove
                   /\ Has(outcome, "newUnitsToCreate")
                THEN SplitUnits(unit, outcome.newUnitsToCreate, now, prev.year)
                        @@ Without(units, {unitId})
                ELSE units
          [] outcome.actionType = "MERGE" ->
                IF Has(outcome, "unitIdsToRemove") /\ Has(outcome, "mergedUnit")
                THEN MergedUnit(unit, outcome.mergedUnit, newOrder, now, prev.year)
                        @@ Without(units, outcome.unitIdsToRemove)
                ELSE units
          [] OTHER ->
                IF unitId \in DOMAIN units
                THEN [units EXCEPT ![unitId] = updateLog(@, newOrder, prev.year)]
                ELSE units

\* TRUE when the updater calls Date.now()
OutcomeStamps(unitId, outcome) ==
    \/ /\ outcome.actionType = "SPLIT"
       /\ Has(outcome, "unitIdsToRemove") /\ unitId \in outcome.unitIdsToRemove
       /\ Has(outcome, "newUnitsToCreate") /\ outcome.newUnitsToCreate # <<>>
    \/ /\ outcome.actionType = "MERGE"
       /\ Has(outcome, "unitIdsToRemove") /\ Has(outcome, "mergedUnit")

\* MilitaryUnitPanel.handleSendOrder: handleUnitOrder up to its await
handleUnitOrder(unitId, newOrder) ==
    /\ Ready
    /\ order.pc = "idle"
    /\ unitId \in DOMAIN gameState.militaryUnits
    /\ gameState.militaryUnits[unitId].owner = Player
    /\ order' = [pc |-> "await", unitId |-> unitId, text |-> newOrder,
                 unit |-> gameState.militaryUnits[unitId]]
    /\ lastStep' = Step("handleUnitOrder", NoChat)
    /\ UNCHANGED <<gameState, gamePhase, isSimulating, fold, deploy, advances, timers,
                   clock, removed>>

\* getUnitActionOutcome returns: the updater runs on the state of that moment
handleUnitOrderReturn(outcome) ==
    /\ Ready
    /\ order.pc = "await"
    /\ order' = IdleOrder
    /\ IF UpdaterThrows(gameState, order.unitId, outcome)
       THEN /\ gamePhase' = "CRASHED"
            /\ UNCHANGED <<gameState, clock, removed>>
       ELSE /\ gamePhase' = gamePhase
            /\ IF OutcomeStamps(order.unitId, outcome)
               THEN clock < MaxClock /\ clock' = clock + 1
               ELSE clock' = clock
            /\ gameState' = [gameState EXCEPT !.militaryUnits =
                    OrderedUnits(gameState, order.unit, order.unitId, order.text,
                                 outcome, clock')]
            /\ removed' = removed \cup (DOMAIN gameState.militaryUnits
                                          \ DOMAIN gameState'.militaryUnits)
    /\ lastStep' = Step("handleUnitOrder:" \o outcome.actionType, NoChat)
    /\ UNCHANGED <<isSimulating, fold, deploy, advances, timers>>

-----------------------------------------------------------------------------
(* Diplomatic chats *)

RemoveAt(s, k) == [i \in 1..(Len(s) - 1) |-> IF i < k THEN s[i] ELSE s[i + 1]]

\* turn-advance calls scheduled or awaiting the oracle
Pending == Len(advances) + Len(timers)

\* updateChat(chatId, update) with update already applied to the chat it finds
updateChat(state, chatId, updated) ==
    IF chatId \in DOMAIN state.chats
    THEN [state EXCEPT !.chats[chatId] = updated]
    ELSE state

\* setTimeout(() => advanceChatTurn(chatId, false), ...) of the call site `from`
Timer(chatId, from) == [chatId |-> chatId, from |-> from]

handleCreateChat(participants) ==
    /\ Ready
    /\ Player # null
    /\ Cardinality(DOMAIN gameState.chats) < MaxChats
    /\ clock < MaxClock
    /\ clock' = clock + 1
    /\ LET chatId == <<"chat", clock'>>
           newChat == [id |-> chatId,
                       participants |-> <<Player>> \o participants,
                       messages |-> <<>>,
                       currentSpeaker |-> Player]
       IN  /\ gameState' = [gameState EXCEPT !.chats = (chatId :> newChat) @@ @]
           /\ lastStep' = Step("handleCreateChat", chatId)
    /\ UNCHANGED <<gamePhase, isSimulating, fold, deploy, order, advances, timers, removed>>

\* advanceChatTurn up to its await of getGroupChatTurn (App.tsx:319-328)
advanceChatTurn(chatId, isDelegation) ==
    IF Player = null \/ chatId \notin DOMAIN gameState.chats
    THEN UNCHANGED <<gameState, advances>>
    ELSE /\ gameState' = updateChat(gameState, chatId,
                            [gameState.chats[chatId] EXCEPT !.currentSpeaker = null])
         /\ advances' = Append(advances,
                            [chatId |-> chatId, isDelegation |-> isDelegation,
                             participants |-> gameState.chats[chatId].participants])

handleSendMessage(chatId) ==
    /\ Ready
    /\ Player # null
    /\ Pending < MaxAdvances
    /\ chatId \in DOMAIN gameState.chats => Len(gameState.chats[chatId].messages) < MaxMessages
    /\ gameState' = IF chatId \in DOMAIN gameState.chats
                    THEN updateChat(gameState, chatId,
                            [gameState.chats[chatId] EXCEPT !.messages =
                                Append(@, [sender |-> Player, text |-> "player's words"])])
                    ELSE gameState
    /\ timers' = Append(timers, Timer(chatId, "send"))
    /\ lastStep' = Step("handleSendMessage", chatId)
    /\ UNCHANGED <<gamePhase, isSimulating, fold, deploy, order, advances, clock, removed>>

\* the filter of the pending invitations, had it compared what they say
WithoutInvitationsLike(pending, invitation) ==
    SelectSeq(pending, LAMBDA inv :
        [k \in DOMAIN inv \ {"ref"} |-> inv[k]]
            # [k \in DOMAIN invitation \ {"ref"} |-> invitation[k]])

\* prev.pendingInvitations.filter(inv => inv !== invitation): the objects are
\* compared by identity
WithoutInvitation(pending, invitation) ==
    SelectSeq(pending, LAMBDA inv : inv.ref # invitation.ref)

\* InvitationView declines the k-th pending invitation
handleDeclineInvitation(k) ==
    /\ Ready
    /\ k \in DOMAIN gameState.pendingInvitations
    /\ gameState' = [gameState EXCEPT !.pendingInvitations =
                        WithoutInvitation(@, gameState.pendingInvitations[k])]
    /\ lastStep' = Step("handleDeclineInvitation", NoChat)
    /\ UNCHANGED <<gamePhase, isSimulating, fold, deploy, order, advances, timers, clock,
                   removed>>

\* InvitationView accepts the k-th pending invitation
handleAcceptInvitation(k) ==
    /\ Ready
    /\ k \in DOMAIN gameState.pendingInvitations
    /\ LET invitation == gameState.pendingInvitations[k]
       IN  IF ~Has(invitation, "chatInitiator") \/ ~Has(invitation, "chatParticipants")
           THEN /\ UNCHANGED <<gameState, timers, clock>>
                /\ lastStep' = Step("handleAcceptInvitation:return", NoChat)
           ELSE /\ Cardinality(DOMAIN gameState.chats) < MaxChats + MaxInvited
                /\ clock < MaxClock
                /\ clock' = clock + 1
                /\ LET chatId == <<"chat", clock'>>
                       newChat ==
                           [id |-> chatId,
                            participants |-> invitation.chatParticipants,
                            messages |-> <<[sender |-> invitation.chatInitiator,
                                            text |-> invitation.description]>>,
                            currentSpeaker |->
                                IF invitation.chatInitiator = Player
                                THEN null ELSE invitation.chatInitiator]
                   IN  /\ gameState' =
                             [gameState EXCEPT
                                !.chats = (chatId :> newChat) @@ @,
                                !.pendingInvitations = WithoutInvitation(@, invitation)]
                       /\ timers' = IF newChat.currentSpeaker # Player
                                    THEN Append(timers, Timer(chatId, "accept"))
                                    ELSE timers
                       /\ lastStep' = Step("handleAcceptInvitation", chatId)
    /\ UNCHANGED <<gamePhase, isSimulating, fold, deploy, order, advances, removed>>

-----------------------------------------------------------------------------
(* Saving and loading *)

GameStateKeys == DOMAIN generateInitialGameState

\* What JSON.parse returns of a save file, for the files that hold an object:
\* `has` are the keys of GameState the object holds with a value other than
\* null, `state` their values, and lacks[id] the keys among currentOrder and
\* ordersLog that the unit id does not hold.
SaveFile(has, state, lacks) == [has |-> has, state |-> state, lacks |-> lacks]

\* GameUI.handleSaveGame, then handleFileChange up to its call of onLoadGame:
\* JSON.parse(JSON.stringify(gameState)). stringify leaves out the keys whose
\* value is undefined; no key of GameState and no currentOrder or ordersLog of
\* a unit is undefined in a state of this program.
handleSaveGame(state) ==
    SaveFile(GameStateKeys, state, [id \in DOMAIN state.militaryUnits |-> {}])

\* a loader that takes any file holding an object
LoadAcceptedUnchecked(file) == TRUE

\* the test of App.tsx:414: countries and year are there and truthy
LoadAccepted(file) ==
    /\ "countries" \in file.has
    /\ "year" \in file.has
    /\ file.state.year # 0

\* a loader that gives every unit a fresh log
LoadedUnitForgetful(unit, lacking) ==
    [unit EXCEPT
        !.currentOrder = IF "currentOrder" \in lacking \/ @ = ""
                         THEN "Awaiting orders." ELSE @,
        !.ordersLog = <<>>]

\* { ...unit, currentOrder: unit.currentOrder || 'Awaiting orders.',
\*   ordersLog: unit.ordersLog || [] } (App.tsx:423-427)
LoadedUnit(unit, lacking) ==
    [unit EXCEPT
        !.currentOrder = IF "currentOrder" \in lacking \/ @ = ""
                         THEN "Awaiting orders." ELSE @,
        !.ordersLog = IF "ordersLog" \in lacking THEN <<>> ELSE @]

\* a loader that keeps the arsenal it builds
StateWithFreshArsenal(file) ==
    LET initialCoreState == generateInitialGameState
        spread == [k \in GameStateKeys |->
                      IF k \in file.has THEN file.state[k] ELSE initialCoreState[k]]
    IN  [spread EXCEPT
            !.arsenal = initialCoreState.arsenal,
            !.militaryUnits =
                IF "militaryUnits" \in file.has
                THEN [id \in DOMAIN file.state.militaryUnits |->
                        LoadedUnit(file.state.militaryUnits[id], file.lacks[id])]
                ELSE <<>>]

\* stateWithDefaults of App.tsx:416-430
StateWithDefaults(file) ==
    LET initialCoreState == generateInitialGameState
        spread == [k \in GameStateKeys |->
                      IF k \in file.has THEN file.state[k] ELSE initialCoreState[k]]
    IN  [spread EXCEPT
            !.arsenal = IF "arsenal" \in file.has
                        THEN file.state.arsenal ELSE initialCoreState.arsenal,
            !.militaryUnits =
                IF "militaryUnits" \in file.has
                THEN [id \in DOMAIN file.state.militaryUnits |->
                        LoadedUnit(file.state.militaryUnits[id], file.lacks[id])]
                ELSE <<>>]

\* App.handleLoadGame on the object parsed from the chosen file
handleLoadGame(file) ==
    /\ Ready
    /\ IF LoadAccepted(file)
       THEN /\ gameState' = StateWithDefaults(file)
            /\ gamePhase' = "PLAYING"
            /\ lastStep' = Step("handleLoadGame", NoChat)
       ELSE /\ UNCHANGED <<gameState, gamePhase>>
            /\ lastStep' = Step("handleLoadGame:reject", NoChat)
    /\ UNCHANGED <<isSimulating, fold, deploy, order, advances, timers, clock, removed>>

\* ChatView.handleSubmit: the chat's form sends when it is the player's turn,
\* and handleSendMessage appends the message and schedules the turn-advance
handleSubmit(chatId) ==
    /\ Ready
    /\ Player # null
    /\ chatId \in DOMAIN gameState.chats
    /\ gameState.chats[chatId].currentSpeaker = Player
    /\ Len(gameState.chats[chatId].messages) < MaxSends
    /\ Len(timers) < MaxSends
    /\ gameState' = updateChat(gameState, chatId,
                        [gameState.chats[chatId] EXCEPT !.messages =
                            Append(@, [sender |-> Player, text |-> "player's words"])])
    /\ timers' = Append(timers, Timer(chatId, "send"))
    /\ lastStep' = Step("handleSubmit", chatId)
    /\ UNCHANGED <<gamePhase, isSimulating, fold, deploy, order, advances, clock, removed>>

handleDelegateTurn(chatId) ==
    /\ Ready
    /\ Pending < MaxAdvances
    /\ advanceChatTurn(chatId, TRUE)
    /\ lastStep' = Step("handleDelegateTurn", chatId)
    /\ UNCHANGED <<gamePhase, isSimulating, fold, deploy, order, timers, clock, removed>>

handleInterrupt(chatId) ==
    /\ Ready
    /\ Player # null
    /\ gameState' = IF chatId \in DOMAIN gameState.chats
                    THEN updateChat(gameState, chatId,
                            [gameState.chats[chatId] EXCEPT !.currentSpeaker = Player])
                    ELSE gameState
    /\ lastStep' = Step("handleInterrupt", chatId)
    /\ UNCHANGED <<gamePhase, isSimulating, fold, deploy, order, advances, timers, clock,
                   removed>>

\* a pending timer fires and calls advanceChatTurn(chatId, false)
TimerFires(k) ==
    /\ Ready
    /\ k \in DOMAIN timers
    /\ timers' = RemoveAt(timers, k)
    /\ advanceChatTurn(timers[k].chatId, FALSE)
    /\ lastStep' = Step("timer:" \o timers[k].from, timers[k].chatId)
    /\ UNCHANGED <<gamePhase, isSimulating, fold, deploy, order, clock, removed>>

\* the fallback, had it given the turn to the player in every case
FallbackTurnToPlayer(participants, player, isDelegation) ==
    [nextSpeaker |-> player, message |-> "A courier got lost."]

\* what getGroupChatTurn returns when its own oracle call fails
\* (geminiService.ts:316-331)
FallbackTurn(participants, player, isDelegation) ==
    LET otherParticipants == SelectSeq(participants, LAMBDA p : p # player)
    IN  IF isDelegation /\ Len(otherParticipants) > 0
        THEN [nextSpeaker |-> otherParticipants[1], message |-> "I will speak."]
        ELSE [nextSpeaker |-> player, message |-> "A courier got lost."]

\* the staleness test of App.tsx:337, never passing
StaleNever(chatAfterApi) == FALSE

\* the staleness test of App.tsx:337: the turn was taken from this call
Stale(chatAfterApi) == chatAfterApi.currentSpeaker # null

\* advanceChatTurn after its await: advances[k] gets `turn` from getGroupChatTurn
advanceChatTurnReturn(k, turn) ==
    /\ Ready
    /\ k \in DOMAIN advances
    /\ advances' = RemoveAt(advances, k)
    /\ LET chatId == advances[k].chatId
       IN  IF chatId \notin DOMAIN gameState.chats
           THEN \* chatAfterApi is undefined: the TypeError lands in the catch,
                \* whose test of the chat fails as well
                /\ UNCHANGED <<gameState, timers>>
                /\ lastStep' = Step("advanceChatTurn:catch", chatId)
           ELSE IF Stale(gameState.chats[chatId])
           THEN /\ UNCHANGED <<gameState, timers>>
                /\ lastStep' = Step("advanceChatTurn:discard", chatId)
           ELSE /\ turn.message # "" =>
                        Len(gameState.chats[chatId].messages) < MaxMessages
                /\ gameState' = updateChat(gameState, chatId,
                        [gameState.chats[chatId] EXCEPT
                            !.messages = IF turn.message # ""
                                         THEN Append(@, [sender |-> turn.nextSpeaker,
                                                         text |-> turn.message])
                                         ELSE @,
                            !.currentSpeaker = turn.nextSpeaker])
                /\ timers' = IF turn.nextSpeaker # Player
                             THEN Append(timers, Timer(chatId, "chained"))
                             ELSE timers
                /\ lastStep' = Step("advanceChatTurn:apply", chatId)
    /\ UNCHANGED <<gamePhase, isSimulating, fold, deploy, order, clock, removed>>

\* the turns getGroupChatTurn can return to advances[k]: any participant with
\* or without a message, or the fallback of a failed call
GroupChatTurns(k) ==
    {[nextSpeaker |-> s, message |-> m] :
        s \in Range(advances[k].participants), m \in {"", "a reply"}}
    \cup {FallbackTurn(advances[k].participants, Player, advances[k].isDelegation)}

-----------------------------------------------------------------------------
(* Batches the simulation oracle may return *)

AnnexTexasForGeorgia ==
    With(Ev("ANNEXATION", <<Georgia, USA>>, "Georgia takes Texas"),
         "territoryNames", <<Texas>>)

AnnexTexasForUSA ==
    With(Ev("ANNEXATION", <<USA, Georgia>>, "USA takes Texas"),
         "territoryNames", <<Texas>>)

SolarFlare == Ev("SOLAR_FLARE", <<>>, "an event type the engine does not know")

OrderCatalog == {AnnexTexasForGeorgia, AnnexTexasForUSA, SolarFlare}

NextOrder ==
    \/ \E n \in {USA, Texas} : n \in Selectable /\ handleCountrySelect(n)
    \/ handleSimulate
    \/ \E events \in SeqUpTo(OrderCatalog, MaxBatch) : handleNewEvents(events)
    \/ FoldStep
    \/ FoldCommit

\* the fold of batches of annexations and unknown events
SpecOrder == Init /\ [][NextOrder]_vars

AnnexTexasForMordor ==
    With(Ev("ANNEXATION", <<Mordor, USA>>, "a country the state does not hold takes Texas"),
         "territoryNames", <<Texas>>)

ConquerGeorgia == Ev("ANNEXATION", <<USA, Georgia>>, "USA conquers Georgia")

FormRepublicOfTexas ==
    With(With(Ev("COUNTRY_FORMATION", <<>>, "Texas declares independence"),
              "newCountryName", RepublicOfTexas),
         "territoryNames", <<Texas, "Atlantis">>)

OwnerCatalog == {AnnexTexasForMordor, ConquerGeorgia, FormRepublicOfTexas}

NextOwner ==
    \/ \E n \in {USA, Georgia, Texas} : n \in Selectable /\ handleCountrySelect(n)
    \/ handleSimulate
    \/ \E events \in SeqUpTo(OwnerCatalog, MaxBatch) : handleNewEvents(events)
    \/ FoldStep
    \/ FoldCommit

\* the fold of batches that reassign territories
SpecOwner == Init /\ [][NextOwner]_vars

Slump ==
    With(Ev("ECONOMIC_SHIFT", <<Georgia>>, "Georgia's economy collapses"),
         "economicEffects",
         <<[Effect(Georgia) EXCEPT
              !.has = {"gdpChange", "populationChange", "stabilityChange",
                       "militaryStrengthChange"},
              !.gdpChange = -200, !.populationChange = -50,
              !.stabilityChange = -80, !.militaryStrengthChange = -40]>>)

Boom ==
    With(Ev("TRADE_DEAL", <<USA, Mordor>>, "a trade deal lifts USA"),
         "economicEffects",
         <<[Effect(USA) EXCEPT
              !.has = {"gdpChange", "stabilityChange", "newResources"},
              !.gdpChange = 500, !.stabilityChange = 40, !.newResources = <<"oil">>],
           [Effect(Mordor) EXCEPT !.has = {"gdpChange"}, !.gdpChange = -5]>>)

Recovery ==
    With(Ev("ECONOMIC_SHIFT", <<Georgia>>, "Georgia recovers a little"),
         "economicEffects",
         <<[Effect(Georgia) EXCEPT
              !.has = {"gdpChange", "populationChange", "stabilityChange",
                       "militaryStrengthChange"},
              !.gdpChange = 3, !.populationChange = 2,
              !.stabilityChange = 7, !.militaryStrengthChange = -1]>>)

EconCatalog == {Slump, Boom, Recovery}

NextEcon ==
    \/ \E n \in {Georgia, Texas} : n \in Selectable /\ handleCountrySelect(n)
    \/ handleSimulate
    \/ \E events \in SeqUpTo(EconCatalog, MaxBatch) : handleNewEvents(events)
    \/ FoldStep
    \/ FoldCommit

\* the fold of batches that carry economic effects
SpecEcon == Init /\ [][NextEcon]_vars

DeployArmyForUSA ==
    With(With(Ev("DEPLOY_UNIT", <<USA>>, "USA raises an army"),
              "unitType", ARMY),
         "locationDescription", "the Gulf coast")

ScrapUnitEvent(unitId) ==
    With(Ev("SCRAP_UNIT", <<USA>>, "a unit is decommissioned"), "unitId", unitId)

\* the oracle is shown the state, so it scraps units the state holds
MilCatalog ==
    {DeployArmyForUSA} \cup {ScrapUnitEvent(id) : id \in DOMAIN gameState.militaryUnits}

\* the names the oracle gives the parts of a split unit
PartNames == <<"Alpha Group", "Bravo Group", "Charlie Group", "Delta Group">>

SplitOutcome(unitId) ==
    [Outcome("SPLIT") EXCEPT !.has = {"unitIdsToRemove", "newUnitsToCreate"},
                             !.unitIdsToRemove = {unitId},
                             !.newUnitsToCreate =
                                [i \in 1..SplitParts |->
                                    PartialUnit(PartNames[i], "Col. Travis", <<"frigates">>, i)]]

MergeOutcome(unitId) ==
    [Outcome("MERGE") EXCEPT !.has = {"unitIdsToRemove", "mergedUnit"},
                             !.unitIdsToRemove = {unitId},
                             !.mergedUnit = PartialUnit("Combined Strike Group", "Adm. Farragut",
                                                       <<"frigates", "carriers">>, 2)]

NextMil ==
    \/ handleCountrySelect(USA)
    \/ handleSimulate
    \/ \E events \in SeqUpTo(MilCatalog, MaxBatch) : handleNewEvents(events)
    \/ FoldStep
    \/ \E proposed \in {"throw", ARMY, NAVY} : FoldDeployReturn(proposed)
    \/ FoldCommit
    \/ handleDeployUnit
    \/ \E proposed \in SeqUpTo({NAVY}, MaxProposed) : handleDeployUnitReturn(proposed)
    \/ handleDeployUnitFails
    \/ \E unitId \in DOMAIN gameState.militaryUnits : handleUnitOrder(unitId, "split up")
    \/ /\ order.pc = "await"
       /\ \E outcome \in {SplitOutcome(order.unitId), MergeOutcome(order.unitId)} :
             handleUnitOrderReturn(outcome)

\* deployments, scrappings and unit orders around the fold
SpecMil == Init /\ [][NextMil]_vars

\* the event of the specification's scenario A
AnnexTexasScenarioA ==
    With(Ev("ANNEXATION", <<"USA", RepublicOfTexas>>, "Texas changes hands"),
         "territoryNames", <<Texas>>)

\* a name no territory has, and a name two territories have
AnnexAtlantisAndGeorgia ==
    With(Ev("ANNEXATION", <<Mordor, USA>>, "Mordor lands in Atlantis and Georgia"),
         "territoryNames", <<"Atlantis", Georgia>>)

AnnexationOfThree ==
    With(Ev("ANNEXATION", <<Georgia, USA, Mordor>>, "a three-sided war over Texas"),
         "territoryNames", <<Texas>>)

ConquestByNobody == Ev("ANNEXATION", <<USA>>, "USA falls apart")

AnnexCatalog ==
    {AnnexTexasScenarioA, AnnexAtlantisAndGeorgia, AnnexationOfThree, ConquestByNobody,
     ConquerGeorgia}

\* an annexation alone, or the conquest of Georgia before or after the
\* landing in it
AnnexBatches ==
    {b \in {<<e>> : e \in AnnexCatalog}
           \cup {<<ConquerGeorgia, AnnexAtlantisAndGeorgia>>,
                 <<AnnexAtlantisAndGeorgia, ConquerGeorgia>>} : Len(b) <= MaxBatch}

NextAnnex ==
    \/ \E n \in {USA, Georgia} : handleCountrySelect(n)
    \/ handleSimulate
    \/ \E events \in AnnexBatches : handleNewEvents(events)
    \/ FoldStep
    \/ FoldCommit

\* the fold of batches of annexations of every shape
SpecAnnex == Init /\ [][NextAnnex]_vars

TexanBoom ==
    With(Ev("ECONOMIC_SHIFT", <<RepublicOfTexas>>, "oil is struck in Texas"),
         "economicEffects",
         <<[Effect(RepublicOfTexas) EXCEPT
              !.has = {"gdpChange", "stabilityChange", "newResources"},
              !.gdpChange = 7, !.stabilityChange = -3, !.newResources = <<"oil">>]>>)

RetakeTexas ==
    With(Ev("ANNEXATION", <<USA, RepublicOfTexas>>, "USA retakes Texas"),
         "territoryNames", <<Texas>>)

FormCatalog == {FormRepublicOfTexas, TexanBoom, RetakeTexas}

NextForm ==
    \/ \E n \in {USA, Georgia} : handleCountrySelect(n)
    \/ handleSimulate
    \/ \E events \in SeqUpTo(FormCatalog, MaxBatch) : handleNewEvents(events)
    \/ FoldStep
    \/ FoldCommit

\* the fold of batches that form a country, change it and form it again
SpecForm == Init /\ [][NextForm]_vars

\* an annexation of a territory no map has, with effects on a country the
\* state does not hold and on one it holds
AnnexAtlantis ==
    With(With(Ev("ANNEXATION", <<Georgia, USA>>, "Georgia claims Atlantis"),
              "territoryNames", <<"Atlantis">>),
         "economicEffects",
         <<[Effect(Mordor) EXCEPT !.has = {"gdpChange"}, !.gdpChange = -5],
           [Effect(USA) EXCEPT !.has = {"gdpChange"}, !.gdpChange = 500]>>)

FoundCityInAtlantis ==
    With(With(With(Ev("CITY_FOUNDED", <<USA>>, "a city rises in Atlantis"),
                   "newCityName", "New Atlantis"),
              "territoryForNewCity", "Atlantis"),
         "newCityCoordinates", 1)

GhostUnitId == <<USA, ARMY, 0, -1>>

ScrapGhostUnit == ScrapUnitEvent(GhostUnitId)

ManufactureForMordor ==
    With(With(With(Ev("MANUFACTURE_COMPLETE", <<Mordor>>, "Mordor's forges deliver"),
                   "unitType", ARMY),
              "newUnitName", "Nazgul"),
         "maxUnitChange", 1)

DeployForMordor ==
    With(With(Ev("DEPLOY_UNIT", <<Mordor>>, "Mordor raises an army"),
              "unitType", ARMY),
         "locationDescription", "the Black Gate")

UnknownCatalog ==
    {AnnexAtlantis, FormRepublicOfTexas, FoundCityInAtlantis, ScrapGhostUnit,
     ManufactureForMordor, DeployForMordor}

\* an event that refers to something the state does not hold, alone or
\* before or after an event that conquers a country
UnknownBatches ==
    {b \in {<<u>> : u \in UnknownCatalog}
           \cup {<<u, ConquerGeorgia>> : u \in UnknownCatalog}
           \cup {<<ConquerGeorgia, u>> : u \in UnknownCatalog} : Len(b) <= MaxBatch}

NextUnknown ==
    \/ \E n \in {USA, Georgia} : handleCountrySelect(n)
    \/ handleSimulate
    \/ \E events \in UnknownBatches : handleNewEvents(events)
    \/ FoldStep
    \/ FoldCommit

\* the fold of batches whose events refer to what the state does not hold
SpecUnknown == Init /\ [][NextUnknown]_vars

ManufactureNavyForUSA ==
    With(With(With(Ev("MANUFACTURE_COMPLETE", <<USA>>, "a shipyard delivers"),
                   "unitType", NAVY),
              "newUnitName", "USS Enterprise"),
         "maxUnitChange", 1)

\* the oracle is shown the state, so it scraps units the state holds: a
\* manufacture, a scrapping or economic effects alone, or a manufacture
\* before or after a scrapping
PureBatches ==
    LET scraps == {ScrapUnitEvent(id) : id \in DOMAIN gameState.militaryUnits}
    IN  {b \in {<<e>> : e \in {ManufactureNavyForUSA, Boom} \cup scraps}
               \cup {<<ManufactureNavyForUSA, e>> : e \in scraps}
               \cup {<<e, ManufactureNavyForUSA>> : e \in scraps} : Len(b) <= MaxBatch}

NextPure ==
    \/ handleCountrySelect(USA)
    \/ handleDeployUnit
    \/ handleDeployUnitReturn(<<NAVY>>)
    \/ handleSimulate
    \/ \E events \in PureBatches : handleNewEvents(events)
    \/ FoldStep
    \/ FoldCommit

\* folds that write to the arsenal, the units and the countries
SpecPure == Init /\ [][NextPure]_vars

DeployNavyForUSA ==
    With(With(Ev("DEPLOY_UNIT", <<USA>>, "USA launches a fleet"),
              "unitType", NAVY),
         "locationDescription", "Norfolk")

CapacityCatalog == {ManufactureNavyForUSA, DeployNavyForUSA}

NextCapacity ==
    \/ handleCountrySelect(USA)
    \/ handleSimulate
    \/ \E events \in SeqUpTo(CapacityCatalog, MaxBatch) : handleNewEvents(events)
    \/ FoldStep
    \/ \E proposed \in {"throw", NAVY} : FoldDeployReturn(proposed)
    \/ FoldCommit
    \/ handleDeployUnit
    \/ \E proposed \in {<<NAVY>>, <<ARMY, NAVY>>} : handleDeployUnitReturn(proposed)
    \/ \E unitId \in DOMAIN gameState.militaryUnits : handleUnitOrder(unitId, "split up")
    \/ /\ order.pc = "await"
       /\ handleUnitOrderReturn(SplitOutcome(order.unitId))

\* deployments against ceilings that manufacture raises, with splits between
SpecCapacity == Init /\ [][NextCapacity]_vars

RelocateOutcome ==
    [Outcome("RELOCATE") EXCEPT !.has = {"newCoordinates"}]

\* newCoordinates is optional in the oracle's schema (geminiService.ts:557-561)
RetreatNowhereOutcome == Outcome("RETREAT")

GeneralOrderOutcome == Outcome("GENERAL_ORDER")

NextOrders ==
    \/ handleCountrySelect(USA)
    \/ handleDeployUnit
    \/ handleDeployUnitReturn(<<NAVY>>)
    \/ \E unitId \in DOMAIN gameState.militaryUnits :
          \E newOrder \in {"hold", "advance"} \ {gameState.militaryUnits[unitId].currentOrder} :
             handleUnitOrder(unitId, newOrder)
    \/ \E outcome \in {RelocateOutcome, RetreatNowhereOutcome, GeneralOrderOutcome} :
          handleUnitOrderReturn(outcome)

\* one unit of the player given order after order, each other than the one
\* it is carrying out
SpecOrders == Init /\ [][NextOrders]_vars

\* a SPLIT whose unitIdsToRemove names another unit than the one ordered
SplitOtherOutcome ==
    [SplitOutcome(GhostUnitId) EXCEPT !.newUnitsToCreate = SubSeq(@, 1, 1)]

NextSplit ==
    \/ handleCountrySelect(USA)
    \/ handleDeployUnit
    \/ \E type \in {NAVY, ARMY} : handleDeployUnitReturn(<<type>>)
    \/ \E unitId \in DOMAIN gameState.militaryUnits :
          /\ unitId[2] \in UnitType
          /\ Len(gameState.militaryUnits[unitId].ordersLog) <= MaxOrders
          /\ handleUnitOrder(unitId, "split up")
    \/ /\ order.pc = "await"
       /\ \E outcome \in {RelocateOutcome, SplitOutcome(order.unitId), SplitOtherOutcome} :
             handleUnitOrderReturn(outcome)

\* units the player deployed are moved and split
SpecSplit == Init /\ [][NextSplit]_vars

\* a MERGE whose unitIdsToRemove the oracle fills as it likes
MergeOf(unitIds) ==
    [MergeOutcome(GhostUnitId) EXCEPT !.unitIdsToRemove = unitIds]

NextMerge ==
    \/ handleCountrySelect(USA)
    \/ handleDeployUnit
    \/ \E type \in {NAVY, ARMY} : handleDeployUnitReturn(<<type>>)
    \/ \E unitId \in DOMAIN gameState.militaryUnits :
          /\ Len(gameState.militaryUnits[unitId].ordersLog) < MaxOrders
          /\ handleUnitOrder(unitId, "join forces")
    \/ /\ order.pc = "await"
       /\ \E outcome \in {RelocateOutcome}
                \cup {MergeOf(ids) : ids \in SUBSET DOMAIN gameState.militaryUnits} :
             handleUnitOrderReturn(outcome)

\* units of the player deployed, moved and merged
SpecMerge == Init /\ [][NextMerge]_vars

Invitation(initiator, participants, description) ==
    With(With(Ev("CHAT_INVITATION", participants, description),
              "chatInitiator", initiator),
         "chatParticipants", participants)

InviteFromGeorgia == Invitation(Georgia, <<Georgia, USA>>, "Georgia asks for talks")

InviteFromPlayer == Invitation(USA, <<USA, Georgia>>, "talks in the name of USA")

\* one invitation, two that say the same, or one in the player's name after
\* one of Georgia
InviteBatches ==
    {b \in {<<InviteFromGeorgia>>,
            <<InviteFromGeorgia, InviteFromGeorgia>>,
            <<InviteFromGeorgia, InviteFromPlayer>>} : Len(b) <= MaxBatch}

NextInvite ==
    \/ handleCountrySelect(USA)
    \/ handleCreateChat(<<Georgia>>)
    \/ handleSimulate
    \/ \E events \in InviteBatches : handleNewEvents(events)
    \/ FoldStep
    \/ FoldCommit
    \/ \E k \in DOMAIN gameState.pendingInvitations : handleAcceptInvitation(k)
    \/ \E k \in DOMAIN gameState.pendingInvitations : handleDeclineInvitation(k)

\* invitations arrive in batches and are accepted or declined
SpecInvite == Init /\ [][NextInvite]_vars

\* what the oracle may answer to a simulation
Response(fails, isArray, areEvents, value) ==
    [fails |-> fails, isArray |-> isArray, areEvents |-> areEvents, value |-> value]

SimulationBatches ==
    {b \in {<<>>, <<ConquerGeorgia>>, <<TexanBoom>>, <<TexanBoom, ConquerGeorgia>>} :
        Len(b) <= MaxBatch}

Responses ==
    {Response(TRUE, FALSE, FALSE, <<>>),
     Response(FALSE, FALSE, FALSE, <<>>),
     Response(FALSE, TRUE, FALSE, <<>>)}
    \cup {Response(FALSE, TRUE, TRUE, b) : b \in SimulationBatches}

\* the responses that are no event array: a failed call, a parsed value that is
\* not an array, an array of something else than events
NoEventArray == {r \in Responses : r.fails \/ ~r.isArray \/ ~r.areEvents}

NextSimulate ==
    \/ \E n \in {USA, Georgia, Texas} : n \in Selectable /\ handleCountrySelect(n)
    \/ handleSimulate
    \/ \E response \in Responses : handleSimulateReturn(response)
    \/ FoldStep
    \/ FoldCommit

\* simulations whose oracle answers with events, with something else, or fails
SpecSimulate == Init /\ [][NextSimulate]_vars

\* an invitation alone, or behind an event whose handler awaits the oracle
InviteRaceBatches ==
    {b \in {<<InviteFromGeorgia>>, <<DeployArmyForUSA, InviteFromGeorgia>>} :
        Len(b) <= MaxBatch}

NextInviteRace ==
    \/ handleCountrySelect(USA)
    \/ handleSimulate
    \/ \E events \in InviteRaceBatches : handleNewEvents(events)
    \/ FoldStep
    \/ \E proposed \in {"throw", ARMY} : FoldDeployReturn(proposed)
    \/ FoldCommit
    \/ \E k \in DOMAIN gameState.pendingInvitations : handleAcceptInvitation(k)
    \/ \E k \in DOMAIN gameState.pendingInvitations : handleDeclineInvitation(k)

\* invitations arrive in batches some of which deploy a unit; the player
\* answers invitations whenever the interface lets them
SpecInviteRace == Init /\ [][NextInviteRace]_vars

\* a unit and the state of an earlier game
OldUnitId == <<USA, NAVY, 0, 0>>

OldState ==
    [generateInitialGameState EXCEPT
        !.playerCountryName = USA,
        !.militaryUnits = OldUnitId :>
            [NewUnit(OldUnitId, USA, NAVY) EXCEPT
                !.currentOrder = "hold the strait",
                !.ordersLog = <<[year |-> EpochYear, order |-> "hold the strait"]>>],
        !.arsenal[USA][NAVY].maxUnits = DefaultMaxUnits + 1]

\* a save file with some keys cut out, of the state and of every unit
Damaged(file, missing, lacking) ==
    [file EXCEPT !.has = @ \ missing,
                 !.lacks = [id \in DOMAIN @ |-> lacking]]

\* the files the player may choose: the save of an earlier game, whole, or
\* with keys of the state cut out, or with keys of its unit cut out, or with
\* both, or with the year 0
Files ==
    {Damaged(handleSaveGame(OldState), missing, {}) :
        missing \in {{}, {"countries"}, {"year"}, {"arsenal"}, {"militaryUnits"},
                     {"arsenal", "militaryUnits"}}}
    \cup {Damaged(handleSaveGame(OldState), {}, lacking) :
            lacking \in (SUBSET {"currentOrder", "ordersLog"}) \ {{}}}
    \cup {Damaged(handleSaveGame(OldState), {"arsenal"}, {"currentOrder", "ordersLog"}),
          handleSaveGame([OldState EXCEPT !.year = 0])}

SaveBatches ==
    {b \in {<<ConquerGeorgia>>, <<InviteFromGeorgia>>} : Len(b) <= MaxBatch}

NextSave ==
    \/ handleCountrySelect(USA)
    \/ handleSimulate
    \/ \E events \in SaveBatches : handleNewEvents(events)
    \/ FoldStep
    \/ FoldCommit
    \/ handleDeployUnit
    \/ handleDeployUnitReturn(<<NAVY>>)
    \/ \E unitId \in DOMAIN gameState.militaryUnits :
          /\ unitId[2] \in UnitType
          /\ Len(gameState.militaryUnits[unitId].ordersLog) < MaxOrders
          /\ handleUnitOrder(unitId, "advance")
    \/ /\ order.pc = "await"
       /\ \E outcome \in {RelocateOutcome, SplitOutcome(order.unitId)} :
             handleUnitOrderReturn(outcome)
    \/ handleCreateChat(<<Georgia>>)
    \/ handleLoadGame(handleSaveGame(gameState))

\* a game with batches, deployments, unit orders and a chat, saved and loaded
SpecSave == Init /\ [][NextSave]_vars

NextLoad ==
    \/ handleCountrySelect(USA)
    \/ handleDeployUnit
    \/ handleDeployUnitReturn(<<NAVY>>)
    \/ handleCreateChat(<<Georgia>>)
    \/ \E file \in Files : handleLoadGame(file)

\* files of all kinds loaded over a game with a unit and a chat
SpecLoad == Init /\ [][NextLoad]_vars

FoundCity(newCityName, territoryName) ==
    With(With(With(Ev("CITY_FOUNDED", <<USA>>, "a city is founded"),
                   "newCityName", newCityName),
              "territoryForNewCity", territoryName),
         "newCityCoordinates", 1)

RenameCity(cityName, newCityName) ==
    With(With(Ev("CITY_RENAMED", <<Georgia>>, "a city takes a new name"),
              "cityName", cityName),
         "newCityName", newCityName)

\* a second Tbilisi and a Houston are founded in Texas; Tbilisi becomes Batumi
\* and Batumi Tbilisi again; a city nobody knows is renamed; a renaming that
\* names no new name
RenameBatches ==
    {b \in {<<FoundCity("Tbilisi", Texas)>>,
            <<FoundCity("Houston", Texas)>>,
            <<FoundCity("Tbilisi", Texas), FoundCity("Houston", Texas)>>,
            <<RenameCity("Tbilisi", "Batumi")>>,
            <<RenameCity("Batumi", "Tbilisi")>>,
            <<RenameCity("Atlantis City", "Batumi")>>,
            <<Ev("CITY_RENAMED", <<Georgia>>, "a city loses its name")>>} :
        Len(b) <= MaxBatch}

DestroyCity(cityName) ==
    With(Ev("CITY_DESTROYED", <<Georgia>>, "a city is razed"), "cityName", cityName)

\* Batumi is founded in Georgia, beside Tbilisi; Batumi is renamed Tbilisi;
\* Batumi is founded twice in one batch; cities are razed
CityBatches ==
    {b \in {<<FoundCity("Batumi", Georgia)>>,
            <<RenameCity("Batumi", "Tbilisi")>>,
            <<RenameCity("Tbilisi", "Batumi")>>,
            <<DestroyCity("Batumi")>>,
            <<DestroyCity("Tbilisi")>>,
            <<FoundCity("Batumi", Georgia), FoundCity("Batumi", Georgia)>>,
            <<DestroyCity("Tbilisi"), FoundCity("Batumi", Georgia)>>} :
        Len(b) <= MaxBatch}

NextCities ==
    \/ \E n \in {USA, Georgia} : n \in Selectable /\ handleCountrySelect(n)
    \/ handleSimulate
    \/ \E events \in CityBatches : handleNewEvents(events)
    \/ FoldStep
    \/ FoldCommit

\* the fold of batches that found, rename and raze cities of one territory
SpecCities == Init /\ [][NextCities]_vars

NextRename ==
    \/ \E n \in {USA, Georgia} : n \in Selectable /\ handleCountrySelect(n)
    \/ handleSimulate
    \/ \E events \in RenameBatches : handleNewEvents(events)
    \/ FoldStep
    \/ FoldCommit

\* the fold of batches that found and rename cities
SpecRename == Init /\ [][NextRename]_vars

\* maxUnitChange is a number of the oracle's choosing (geminiService.ts:90-93)
ShrinkNavyOfUSA ==
    With(With(Ev("MANUFACTURE_COMPLETE", <<USA>>, "a shipyard closes"),
              "unitType", NAVY),
         "maxUnitChange", -1)

NameArmyOfGeorgia ==
    With(With(Ev("MANUFACTURE_COMPLETE", <<Georgia, USA>>, "a division is raised"),
              "unitType", ARMY),
         "newUnitName", "1st Kartli")

ManufactureBatches ==
    {b \in {<<ManufactureNavyForUSA>>, <<ShrinkNavyOfUSA>>, <<NameArmyOfGeorgia>>,
            <<ManufactureForMordor>>,
            <<NameArmyOfGeorgia, ManufactureNavyForUSA>>,
            <<ShrinkNavyOfUSA, NameArmyOfGeorgia>>} : Len(b) <= MaxBatch}

NextManufacture ==
    \/ \E n \in {USA, Georgia} : n \in Selectable /\ handleCountrySelect(n)
    \/ handleSimulate
    \/ \E events \in ManufactureBatches : handleNewEvents(events)
    \/ FoldStep
    \/ FoldCommit

\* the fold of batches of MANUFACTURE_COMPLETE events
SpecManufacture == Init /\ [][NextManufacture]_vars

NextSend ==
    \/ \E n \in {USA, Georgia, Texas} : n \in Selectable /\ handleCountrySelect(n)
    \/ \E n \in {Georgia, USA} \ {Player} : handleCreateChat(<<n>>)
    \/ \E chatId \in DOMAIN gameState.chats : handleSubmit(chatId)
    \/ \E k \in DOMAIN timers : TimerFires(k)
    \/ \E k \in DOMAIN advances : \E turn \in GroupChatTurns(k) :
          advanceChatTurnReturn(k, turn)

\* the player writes in a chat through its form
SpecSend == Init /\ [][NextSend]_vars

\* ChatView shows Delegate on the player's turn in a chat of more than two
\* (AdvisorPanel.tsx:297-301)
CanDelegate(chatId) ==
    /\ gameState.chats[chatId].currentSpeaker = Player
    /\ Len(gameState.chats[chatId].participants) > 2

\* ChatView enables Interrupt while an AI leader has the turn
\* (AdvisorPanel.tsx:305-308)
CanInterrupt(chatId) ==
    gameState.chats[chatId].currentSpeaker \notin {Player, null}

\* a formation that carries effects for the country it forms and for one
\* that exists
FormRepublicOfTexasRich ==
    With(FormRepublicOfTexas, "economicEffects",
         <<[Effect(RepublicOfTexas) EXCEPT
              !.has = {"gdpChange", "newResources"},
              !.gdpChange = 7, !.newResources = <<"oil">>],
           [Effect(USA) EXCEPT !.has = {"gdpChange"}, !.gdpChange = -7]>>)

EffectsBatches ==
    {b \in {<<FormRepublicOfTexasRich>>, <<TexanBoom>>, <<Boom>>,
            <<FormRepublicOfTexasRich, TexanBoom>>,
            <<TexanBoom, FormRepublicOfTexasRich>>} : Len(b) <= MaxBatch}

NextEffects ==
    \/ \E n \in {USA, Georgia} : n \in Selectable /\ handleCountrySelect(n)
    \/ handleSimulate
    \/ \E events \in EffectsBatches : handleNewEvents(events)
    \/ FoldStep
    \/ FoldCommit

\* the fold of batches whose events carry effects and form a country
SpecEffects == Init /\ [][NextEffects]_vars

\* a formation out of Texas and of Georgia, the name of a country and of a
\* state of the USA
FormRepublicOfTexasAndGeorgia ==
    With(With(Ev("COUNTRY_FORMATION", <<>>, "Texas and Georgia unite"),
              "newCountryName", RepublicOfTexas),
         "territoryNames", <<Texas, Georgia>>)

NamesBatches ==
    {b \in {<<AnnexAtlantisAndGeorgia>>, <<FormRepublicOfTexasAndGeorgia>>,
            <<AnnexTexasScenarioA>>, <<FormRepublicOfTexas>>,
            <<AnnexAtlantisAndGeorgia, FormRepublicOfTexasAndGeorgia>>} : Len(b) <= MaxBatch}

NextNames ==
    \/ \E n \in {USA, Georgia} : n \in Selectable /\ handleCountrySelect(n)
    \/ handleSimulate
    \/ \E events \in NamesBatches : handleNewEvents(events)
    \/ FoldStep
    \/ FoldCommit

\* the fold of annexations and formations that list territories by name
SpecNames == Init /\ [][NextNames]_vars

DeployArmyForGeorgia ==
    With(With(Ev("DEPLOY_UNIT", <<Georgia>>, "Georgia raises an army"),
              "unitType", ARMY),
         "locationDescription", "the Kura valley")

NextForeign ==
    \/ handleCountrySelect(USA)
    \/ handleDeployUnit
    \/ handleDeployUnitReturn(<<NAVY>>)
    \/ handleSimulate
    \/ handleNewEvents(<<DeployArmyForGeorgia>>)
    \/ FoldStep
    \/ \E proposed \in {"none", ARMY} : FoldDeployReturn(proposed)
    \/ FoldCommit
    \/ \E unitId \in DOMAIN gameState.militaryUnits :
          /\ unitId[2] \in UnitType
          /\ Len(gameState.militaryUnits[unitId].ordersLog) < MaxOrders
          /\ handleUnitOrder(unitId, "join forces")
    \/ /\ order.pc = "await"
       /\ \E outcome \in {SplitOutcome(order.unitId)}
                \cup {MergeOf(ids) : ids \in SUBSET DOMAIN gameState.militaryUnits} :
             handleUnitOrderReturn(outcome)

\* the player orders units while another country has units in the field
SpecForeign == Init /\ [][NextForeign]_vars

NextGhost ==
    \/ handleCountrySelect(USA)
    \/ handleDeployUnit
    \/ handleDeployUnitReturn(<<NAVY>>)
    \/ \E unitId \in DOMAIN gameState.militaryUnits :
          /\ unitId[2] \in UnitType
          /\ Len(gameState.militaryUnits[unitId].ordersLog) < MaxOrders
          /\ handleUnitOrder(unitId, "advance")
    \/ handleSimulate
    \/ \E id \in DOMAIN gameState.militaryUnits : handleNewEvents(<<ScrapUnitEvent(id)>>)
    \/ FoldStep
    \/ FoldCommit
    \/ /\ order.pc = "await"
       /\ \E outcome \in {SplitOutcome(order.unitId), MergeOutcome(order.unitId),
                            RelocateOutcome, RetreatNowhereOutcome, GeneralOrderOutcome} :
             handleUnitOrderReturn(outcome)

\* units of the player are given orders while batches scrap units
SpecGhost == Init /\ [][NextGhost]_vars

\* turn-advance calls that may be scheduled or in flight together
MaxRacing == 3

\* ChatView's Delegate button (AdvisorPanel.tsx:298): shown on the player's
\* turn in a group chat, it calls handleDelegateTurn, which tests nothing
onDelegateTurn(chatId) ==
    /\ Ready
    /\ CanDelegate(chatId)
    /\ Pending < MaxRacing
    /\ advanceChatTurn(chatId, TRUE)
    /\ lastStep' = Step("handleDelegateTurn", chatId)
    /\ UNCHANGED <<gamePhase, isSimulating, fold, deploy, order, timers, clock, removed>>

\* ChatView's Interrupt button (AdvisorPanel.tsx:305-308)
onInterrupt(chatId) == CanInterrupt(chatId) /\ handleInterrupt(chatId)

NextRace ==
    \/ handleCountrySelect(Texas)
    \/ handleCreateChat(<<USA, Georgia>>)
    \/ \E chatId \in DOMAIN gameState.chats : handleSubmit(chatId)
    \/ \E chatId \in DOMAIN gameState.chats : onDelegateTurn(chatId)
    \/ \E chatId \in DOMAIN gameState.chats : onInterrupt(chatId)
    \/ \E k \in DOMAIN timers : TimerFires(k)
    \/ \E k \in DOMAIN advances : \E turn \in GroupChatTurns(k) :
          advanceChatTurnReturn(k, turn)

\* the player sends, delegates and interrupts in a group chat through its
\* buttons, as fast as they allow
SpecRace == Init /\ [][NextRace]_vars

\* the id of a chat made in an earlier session
OldChatId == <<"chat", -1>>

\* the save of an earlier game, made while a turn-advance of its chat awaited
\* the oracle
SavedAtSentinel ==
    handleSaveGame(
        [OldState EXCEPT
            !.chats = OldChatId :>
                [id |-> OldChatId,
                 participants |-> <<USA, Georgia>>,
                 messages |-> <<[sender |-> USA, text |-> "player's words"]>>,
                 currentSpeaker |-> null]])

NextSentinel ==
    \/ handleCountrySelect(USA)
    \/ handleCreateChat(<<Georgia>>)
    \/ \E chatId \in DOMAIN gameState.chats :
          gameState.chats[chatId].currentSpeaker = Player /\ handleSendMessage(chatId)
    \/ \E k \in DOMAIN timers : TimerFires(k)
    \/ \E k \in DOMAIN advances : \E turn \in GroupChatTurns(k) :
          advanceChatTurnReturn(k, turn)
    \/ handleSimulate
    \/ handleNewEvents(<<DeployArmyForUSA>>)
    \/ FoldStep
    \/ \E proposed \in {"throw", ARMY} : FoldDeployReturn(proposed)
    \/ FoldCommit
    \/ handleLoadGame(SavedAtSentinel)

\* a chat of the player with one AI leader, while batches are folded and a
\* save is loaded
SpecSentinel == Init /\ [][NextSentinel]_vars

\* every timer fires, every oracle call returns, and the loop of the fold runs on
SpecSentinelFair ==
    /\ SpecSentinel
    /\ WF_vars(\E k \in DOMAIN timers : TimerFires(k))
    /\ WF_vars(\E k \in DOMAIN advances : \E turn \in GroupChatTurns(k) :
                  advanceChatTurnReturn(k, turn))
    /\ WF_vars(handleNewEvents(<<DeployArmyForUSA>>))
    /\ WF_vars(FoldStep)
    /\ WF_vars(\E proposed \in {"throw", ARMY} : FoldDeployReturn(proposed))
    /\ WF_vars(FoldCommit)

NextDelegate ==
    \/ handleCountrySelect(Texas)
    \/ \E participants \in {<<USA, Georgia>>, <<Georgia, USA>>} :
          handleCreateChat(participants)
    \/ \E chatId \in DOMAIN gameState.chats :
          CanDelegate(chatId) /\ handleDelegateTurn(chatId)
    \/ \E chatId \in DOMAIN gameState.chats :
          gameState.chats[chatId].currentSpeaker = Player /\ handleSendMessage(chatId)
    \/ \E chatId \in DOMAIN gameState.chats :
          CanInterrupt(chatId) /\ handleInterrupt(chatId)
    \/ \E k \in DOMAIN timers : TimerFires(k)
    \/ \E k \in DOMAIN advances : \E turn \in GroupChatTurns(k) :
          advanceChatTurnReturn(k, turn)

\* the player delegates turns in a chat with two AI leaders
SpecDelegate == Init /\ [][NextDelegate]_vars

NextChat ==
    \/ handleCountrySelect(USA)
    \/ handleCreateChat(<<Georgia>>)
    \/ \E chatId \in DOMAIN gameState.chats : handleSendMessage(chatId)
    \/ \E chatId \in DOMAIN gameState.chats : handleDelegateTurn(chatId)
    \/ \E chatId \in DOMAIN gameState.chats : handleInterrupt(chatId)
    \/ \E k \in DOMAIN timers : TimerFires(k)
    \/ \E k \in DOMAIN advances : \E turn \in GroupChatTurns(k) :
          advanceChatTurnReturn(k, turn)

\* a chat of the player with one AI leader
SpecChat == Init /\ [][NextChat]_vars

-----------------------------------------------------------------------------
(* Properties *)

\* the step in which handleNewEvents commits
FoldCommits == fold.pc = "running" /\ fold'.pc = "idle"

\* C1: whatever the batch (empty, or of unrecognized event types), the state
\* handleNewEvents commits has the previous year plus one and holds every
\* country the previous state held.
C1_YearAdvancesCountriesKept ==
    [][FoldCommits =>
          /\ gameState'.year = gameState.year + 1
          /\ DOMAIN gameState.countries \subseteq DOMAIN gameState'.countries]_vars

\* C1's case: two batches were folded, one of them holding an event of an
\* unknown type, in a game whose player seceded
C1_Witness ==
    /\ fold.pc = "idle"
    /\ gameState.year = EpochYear + 2
    /\ Texas \in DOMAIN gameState.countries
    /\ Len(gameState.events) = 1
    /\ gameState.events[1].type = "SOLAR_FLARE"

BothAnnexTexas(events) ==
    /\ Len(events) = 2
    /\ \A i \in 1..2 :
          /\ events[i].type = "ANNEXATION"
          /\ Len(events[i].countries) = 2
          /\ Has(events[i], "territoryNames")
          /\ events[i].territoryNames = <<Texas>>

\* C2: the events of a batch are applied in the order delivered, so of two
\* events that reassign the same territory the later one decides its owner.
C2_LaterEventDecides ==
    (fold.pc = "running" /\ fold.i > Len(fold.events) /\ BothAnnexTexas(fold.events))
        => fold.state.territories["USA-48"].owner = fold.events[2].countries[1]

\* C3: the committed log is the batch in reverse input order followed by the
\* previous log.
C3_LogIsReversedBatchThenOldLog ==
    [][FoldCommits => gameState'.events = Reverse(fold.events) \o gameState.events]_vars

\* C8: every owner of a territory or of a unit is a country of the state, or
\* "Unclaimed".
C8_OwnersAreCountries ==
    /\ \A id \in DOMAIN gameState.territories :
          gameState.territories[id].owner \in DOMAIN gameState.countries \cup {Unclaimed}
    /\ \A id \in DOMAIN gameState.militaryUnits :
          gameState.militaryUnits[id].owner \in DOMAIN gameState.countries \cup {Unclaimed}

WithinClamps(countries) ==
    \A n \in DOMAIN countries :
        /\ countries[n].stability >= 0
        /\ countries[n].stability <= 100
        /\ countries[n].gdp >= 1
        /\ countries[n].population >= 1
        /\ countries[n].militaryStrength >= 0

\* C9: after any sequence of batches with economic effects of either sign,
\* every country has 0 <= stability <= 100, gdp >= 1, population >= 0.1 (1 in
\* tenths) and militaryStrength >= 0; so has every state the fold passes through.
C9_ClampLaws ==
    /\ WithinClamps(gameState.countries)
    /\ fold.pc \in {"running", "awaitDeploy"} => WithinClamps(fold.state.countries)

\* C9's case: effects have pushed Georgia to every floor and USA to the
\* stability ceiling
C9_Witness ==
    /\ gameState.year > EpochYear
    /\ gameState.countries[Georgia].gdp = 1
    /\ gameState.countries[Georgia].population = 1
    /\ gameState.countries[Georgia].stability = 0
    /\ gameState.countries[Georgia].militaryStrength = 0
    /\ gameState.countries[USA].stability = 100

\* an advanceChatTurn call on chatId resumes in this step
AdvanceResumes(chatId) ==
    /\ Len(advances') < Len(advances)
    /\ lastStep'.chatId = chatId

\* C4: when a turn-advance resumes on a chat whose currentSpeaker an interrupt
\* has set to the player, its result is discarded: the chat is as it was (the
\* speaker still the player, no message appended) and no timer is scheduled.
C4_InterruptedTurnDiscarded ==
    [][\A chatId \in DOMAIN gameState.chats :
          (AdvanceResumes(chatId) /\ gameState.chats[chatId].currentSpeaker = Player)
              => /\ gameState'.chats[chatId] = gameState.chats[chatId]
                 /\ timers' = timers]_vars

\* C4's case (Scenario E): a delegated turn was in flight, the player
\* interrupted, and the call then resumed and was discarded
C4_Witness ==
    \E chatId \in DOMAIN gameState.chats :
        /\ lastStep.op = "advanceChatTurn:discard"
        /\ lastStep.after = "handleInterrupt"
        /\ lastStep.chatId = chatId
        /\ gameState.chats[chatId].currentSpeaker = Player
        /\ gameState.chats[chatId].messages = <<>>
        /\ timers = <<>>

\* C5: an interrupt has set currentSpeaker to the player; a chained
\* turn-advance scheduled before it fires next and has no effect: the speaker
\* stays the player and no oracle call is started.
C5_ChainedAdvanceAfterInterruptIsInert ==
    [][\A chatId \in DOMAIN gameState.chats :
          (/\ lastStep.op = "handleInterrupt" /\ lastStep.chatId = chatId
           /\ lastStep'.op = "timer:chained" /\ lastStep'.chatId = chatId)
              => /\ gameState'.chats[chatId].currentSpeaker = Player
                 /\ advances' = advances]_vars

\* the fold has read the state and not yet committed
InFold == fold.pc \in {"running", "awaitDeploy"}

\* C6: between the fold's read of the state and its commit no other handler's
\* update is applied, and what it commits over is the state it read.
C6_FoldIsAtomic ==
    [][/\ (InFold /\ InFold') => gameState' = gameState
       /\ FoldCommits => gameState = fold.prevState]_vars

\* every count of units of a country and type is within its maxUnits
CeilingKept(militaryUnits, arsenal) ==
    \A c \in DOMAIN arsenal : \A t \in UnitType :
        UnitCount(militaryUnits, c, t) <= arsenal[c][t].maxUnits

\* C7: a deployment (a DEPLOY_UNIT event whatever type the proposed unit
\* carries, or the player's handleDeployUnit) made in a state within the
\* ceilings leaves every count within its ceiling.
C7_DeploymentsKeepCeiling ==
    [][/\ (/\ fold.pc = "awaitDeploy" /\ fold'.pc = "running"
           /\ CeilingKept(fold.state.militaryUnits, fold.state.arsenal))
              => CeilingKept(fold'.state.militaryUnits, fold'.state.arsenal)
       /\ (/\ deploy.pc = "await" /\ deploy'.pc = "idle"
           /\ CeilingKept(gameState.militaryUnits, gameState.arsenal))
              => CeilingKept(gameState'.militaryUnits, gameState'.arsenal)]_vars

\* C10: a unit id that SCRAP_UNIT, SPLIT or MERGE has removed is never again a
\* key of militaryUnits.
C10_RemovedUnitsStayRemoved ==
    removed \cap DOMAIN gameState.militaryUnits = {}

\* the first n entries of a log
Newest(log, n) == SubSeq(log, 1, Min(n, Len(log)))

\* an order on unit id resolves in this step as one of the kinds that log
OrderResolvesPlainly(id) ==
    /\ order.pc = "await" /\ order'.pc = "idle"
    /\ order.unitId = id
    /\ lastStep'.op \in {"handleUnitOrder:RELOCATE", "handleUnitOrder:RETREAT",
                        "handleUnitOrder:GENERAL_ORDER"}

\* C11: no ordersLog is ever longer than 10; an order resolved as RELOCATE,
\* RETREAT or GENERAL_ORDER becomes currentOrder and the newest entry of the
\* unit's log, before the entries already there, of which the oldest beyond
\* 10 is dropped (so after 10 such orders the log is the 10 most recent).
C11_OrdersLogKeepsTenNewest ==
    /\ [](\A id \in DOMAIN gameState.militaryUnits :
            Len(gameState.militaryUnits[id].ordersLog) <= OrdersLogLimit)
    /\ [][\A id \in DOMAIN gameState.militaryUnits :
            OrderResolvesPlainly(id) =>
                /\ gameState'.militaryUnits[id].currentOrder = order.text
                /\ gameState'.militaryUnits[id].ordersLog =
                      Newest(<<[year |-> gameState.year, order |-> order.text]>>
                                \o gameState.militaryUnits[id].ordersLog,
                             OrdersLogLimit)]_vars

\* C12: handleNewEvents never mutates the state it started from or the events
\* it received: from its first step to its commit, the previous state's
\* territories, countries (resources included), cities, militaryUnits and
\* arsenal (every maxUnits and unitNames included) stay as they were read,
\* whatever the events are, MANUFACTURE_COMPLETE and SCRAP_UNIT included.
C12_FoldLeavesPrevStateAlone ==
    [][InFold /\ InFold' =>
          /\ \A k \in {"territories", "countries", "cities", "militaryUnits", "arsenal"} :
                fold'.prevState[k] = fold.prevState[k]
          /\ fold'.events = fold.events]_vars

\* a fold that has gone through a MANUFACTURE_COMPLETE and a SCRAP_UNIT
C12_Witness ==
    /\ fold.pc = "running"
    /\ fold.i > Len(fold.events)
    /\ \E e \in Range(fold.events) : e.type = "MANUFACTURE_COMPLETE"
    /\ \E e \in Range(fold.events) : e.type = "SCRAP_UNIT"
    /\ fold.state.arsenal # fold.prevState.arsenal
    /\ fold.state.militaryUnits # fold.prevState.militaryUnits

TexasId == UsTerritoryId(<<"48", Texas>>)

\* the events of a batch as the oracle wrote them
AsReturned(events) ==
    [i \in DOMAIN events |-> [k \in DOMAIN events[i] \ {"ref"} |-> events[i][k]]]

\* C13 (as the code has it): applying the one ANNEXATION event with
\* territoryNames ["Texas"] and countries ["USA", "Republic of Texas"] gives
\* the Texas territory to "USA", the first country listed, and leaves the
\* owner of every other territory as it was.
C13_ScenarioAGivesTexasToFirstCountry ==
    [][FoldCommits /\ AsReturned(fold.events) = <<AnnexTexasScenarioA>> =>
          gameState'.territories =
              [fold.prevState.territories EXCEPT ![TexasId].owner = "USA"]]_vars

\* C13 (as stated): the same event gives the Texas territory to
\* "Republic of Texas" and leaves the owner of every other territory as it was.
C13_ScenarioAGivesTexasToRepublic ==
    [][FoldCommits /\ AsReturned(fold.events) = <<AnnexTexasScenarioA>> =>
          gameState'.territories =
              [fold.prevState.territories EXCEPT ![TexasId].owner = RepublicOfTexas]]_vars

\* the first turn has committed scenario A's event alone
C13_Witness ==
    /\ lastStep.op = "handleNewEvents:commit"
    /\ AsReturned(gameState.events) = <<AnnexTexasScenarioA>>
    /\ gameState.territories[TexasId].owner = "USA"

\* a step of the loop that runs the ANNEXATION handler on CurrentEvent
AnnexationStep ==
    /\ fold.pc = "running"
    /\ fold.i <= Len(fold.events)
    /\ fold'.pc = "running"
    /\ fold'.i = fold.i + 1
    /\ CurrentEvent.type = "ANNEXATION"

Listed(event) ==
    IF Has(event, "territoryNames") THEN Range(event.territoryNames) ELSE {}

\* C14: an ANNEXATION of exactly two countries [aggressor, target] with
\* territory names changes the owner only of territories whose name is listed,
\* to the aggressor, and of one territory for each listed name some territory
\* has; without names it gives the aggressor exactly the territories the
\* target owns; every other territory keeps its owner; an ANNEXATION of any
\* other number of countries changes no territory.
C14_AnnexationReassigns ==
    [][AnnexationStep =>
          LET event == CurrentEvent
              before == fold.state.territories
              after == fold'.state.territories
          IN  IF Len(event.countries) # 2 THEN after = before
              ELSE IF Listed(event) # {}
              THEN /\ \A id \in TerritoryIds :
                        \/ after[id] = before[id]
                        \/ /\ before[id].name \in Listed(event)
                           /\ after[id] = [before[id] EXCEPT !.owner = event.countries[1]]
                   /\ \A name \in Listed(event) :
                        (\E id \in TerritoryIds : before[id].name = name) =>
                        (\E id \in TerritoryIds : /\ after[id].name = name
                                                   /\ after[id].owner = event.countries[1])
              ELSE \A id \in TerritoryIds :
                        after[id] = IF before[id].owner = event.countries[2]
                                    THEN [before[id] EXCEPT !.owner = event.countries[1]]
                                    ELSE before[id]]_vars

\* the folds so far have annexed by name, conquered a whole country and gone
\* through an ANNEXATION of three countries; of the two territories named
\* Georgia only the first has changed hands
C14_Witness ==
    /\ {AnnexationOfThree, AnnexAtlantisAndGeorgia, ConquerGeorgia}
          \subseteq Range(AsReturned(gameState.events))
    /\ gameState.territories[Georgia].owner = Mordor
    /\ gameState.territories[UsTerritoryId(<<"13", Georgia>>)].owner = USA
    /\ gameState.territories[TexasId].owner = USA

\* a step of the loop that runs the COUNTRY_FORMATION handler on CurrentEvent
FormationStep ==
    /\ fold.pc = "running"
    /\ fold.i <= Len(fold.events)
    /\ fold'.pc = "running"
    /\ fold'.i = fold.i + 1
    /\ CurrentEvent.type = "COUNTRY_FORMATION"
    /\ Has(CurrentEvent, "newCountryName")
    /\ Has(CurrentEvent, "territoryNames")

\* C15: a COUNTRY_FORMATION applied to a state that holds newCountryName
\* already (the event was applied before, in this batch or an earlier one)
\* leaves the countries map as it is, one entry for the name with the
\* statistics it had, and gives the named territories to the country again;
\* applied to a state without the country it adds exactly that entry.
C15_FormationCreatesOnce ==
    [][FormationStep =>
          LET name == CurrentEvent.newCountryName
              before == fold.state
              after == fold'.state
          IN  /\ DOMAIN after.countries = DOMAIN before.countries \cup {name}
              /\ \A n \in DOMAIN before.countries : after.countries[n] = before.countries[n]
              /\ \A t \in Range(CurrentEvent.territoryNames) :
                    (\E id \in TerritoryIds : before.territories[id].name = t) =>
                    (\E id \in TerritoryIds : /\ after.territories[id].name = t
                                               /\ after.territories[id].owner = name)]_vars

\* the loop has just formed the Republic of Texas a second time: the country
\* has statistics no formation gives, and Texas, retaken since, is its again
C15_Witness ==
    /\ fold.pc = "running"
    /\ fold.i > 1
    /\ Reverse(fold.events)[fold.i - 1].type = "COUNTRY_FORMATION"
    /\ RetakeTexas \in Range(AsReturned(fold.prevState.events))
    /\ fold.state.countries[RepublicOfTexas].gdp
          # FormationStats(RepublicOfTexas).gdp
    /\ "oil" \in fold.state.countries[RepublicOfTexas].resources
    /\ fold.state.territories[TexasId].owner = RepublicOfTexas

\* the event without the items that refer to a territory or a country the
\* state does not hold
Stripped(event, state) ==
    [event EXCEPT
        !.territoryNames =
            SelectSeq(@, LAMBDA n : \E id \in TerritoryIds : state.territories[id].name = n),
        !.economicEffects =
            SelectSeq(@, LAMBDA e : e.country \in DOMAIN state.countries)]

\* the event's handler has nothing in the state to act on
RefersToNothing(event, state) ==
    \/ /\ event.type = "ANNEXATION"
       /\ Has(event, "territoryNames")
       /\ event.territoryNames # <<>>
       /\ Stripped(event, state).territoryNames = <<>>
    \/ /\ event.type = "CITY_FOUNDED"
       /\ \A id \in TerritoryIds : state.territories[id].name # event.territoryForNewCity
    \/ /\ event.type = "SCRAP_UNIT"
       /\ event.unitId \notin DOMAIN state.militaryUnits
    \/ /\ event.type = "MANUFACTURE_COMPLETE"
       /\ Len(event.countries) >= 1
       /\ event.countries[1] \notin DOMAIN state.arsenal
    \/ /\ event.type = "DEPLOY_UNIT"
       /\ Len(event.countries) >= 1
       /\ event.countries[1] \notin DOMAIN state.countries

\* C16: an item of an event that refers to a territory, country or unit the
\* state does not hold changes nothing and stops nothing: a step of the loop
\* does what it does for the event without those items (nothing at all when
\* the handler has nothing to act on), the loop goes on to the next event,
\* and the commit comes after the last event with the year one more.
C16_UnknownReferencesAreSkipped ==
    /\ [][fold.pc = "running" /\ fold.i <= Len(fold.events) =>
            LET event == CurrentEvent
                known == Stripped(event, fold.state)
                afterEffects == processEconomicEffects(fold.state, known)
            IN  /\ fold'.pc = "running"
                /\ fold'.i = fold.i + 1
                /\ fold'.state = IF RefersToNothing(event, fold.state)
                                 THEN afterEffects
                                 ELSE SyncHandler(afterEffects, known, 0)]_vars
    /\ [][FoldCommits =>
            /\ fold.i = Len(fold.events) + 1
            /\ gameState'.year = fold.prevState.year + 1
            /\ gameState'.territories = fold.state.territories
            /\ gameState'.countries = fold.state.countries]_vars
    /\ [](gamePhase # "CRASHED")

\* two turns are committed; their batches held an annexation of Atlantis with
\* an effect on Mordor, a deployment for Mordor and the conquest of Georgia,
\* and the effect on USA and the conquest have been applied
C16_Witness ==
    /\ lastStep.op = "handleNewEvents:commit"
    /\ gameState.year = EpochYear + 2
    /\ {AnnexAtlantis, DeployForMordor, ConquerGeorgia}
          \subseteq Range(AsReturned(gameState.events))
    /\ gameState.territories[Georgia].owner = USA
    /\ gameState.countries[USA].gdp > BaselineStats(USA).gdp
    /\ Mordor \notin DOMAIN gameState.countries
    /\ gameState.militaryUnits = <<>>

\* the types of which `after` holds more units of the country than `before`
TypesAdded(before, after, countryName) ==
    {t \in UnitType : UnitCount(after, countryName, t) > UnitCount(before, countryName, t)}

\* C17: a player deployment that would take some unit type above its maxUnits
\* (the units deployed plus the units proposed) adds no unit of any type, so
\* a deployment that adds units leaves every type it adds to within its
\* maxUnits, and none touches the arsenal; a DEPLOY_UNIT event for a country
\* and type at capacity adds no unit and the loop goes on to the next event.
C17_OverCapacityDeploysNothing ==
    /\ [][deploy.pc = "await" /\ deploy'.pc = "idle" =>
            /\ gameState'.arsenal = gameState.arsenal
            /\ \A t \in TypesAdded(gameState.militaryUnits, gameState'.militaryUnits,
                                    Player) :
                  UnitCount(gameState'.militaryUnits, Player, t)
                      <= gameState.arsenal[Player][t].maxUnits]_vars
    /\ [][/\ fold.pc = "running"
           /\ fold.i <= Len(fold.events)
           /\ CurrentEvent.type = "DEPLOY_UNIT"
           /\ UnitCount(fold.state.militaryUnits, CurrentEvent.countries[1],
                        CurrentEvent.unitType)
                 >= MaxUnitsOrZero(fold.state.arsenal, CurrentEvent.countries[1],
                                   CurrentEvent.unitType)
           => /\ fold'.state.militaryUnits = fold.state.militaryUnits
              /\ fold'.state.arsenal = fold.state.arsenal
              /\ fold'.pc = "running"
              /\ fold'.i = fold.i + 1]_vars

\* the player's form appends a message to chatId in this step
PlayerAppends(chatId) ==
    /\ lastStep'.op = "handleSubmit"
    /\ lastStep'.chatId = chatId
    /\ Len(gameState'.chats[chatId].messages) > Len(gameState.chats[chatId].messages)

\* C18: the player's message is appended only in a state where the chat's
\* currentSpeaker is the player, and the chat is at the sentinel (null)
\* before the player appends again: no two appends to a chat follow each
\* other with nothing in between.
C18_PlayerSendsOncePerTurn ==
    [][\A chatId \in DOMAIN gameState.chats :
          PlayerAppends(chatId) =>
              /\ gameState.chats[chatId].currentSpeaker = Player
              /\ ~(lastStep.op = "handleSubmit" /\ lastStep.chatId = chatId)]_vars

\* C19: when a delegated turn-advance applies its result, the chat's
\* currentSpeaker is a participant other than the player, whatever speaker
\* the oracle returned.
C19_DelegationPicksAnother ==
    [][\A k \in DOMAIN advances :
          (/\ advances[k].isDelegation
           /\ advances' = RemoveAt(advances, k)
           /\ lastStep'.op = "advanceChatTurn:apply")
              => gameState'.chats[advances[k].chatId].currentSpeaker
                    \in Range(advances[k].participants) \ {Player}]_vars

\* C20: when the oracle call of a turn-advance fails, the turn-advance resumes
\* with the fallback turn and the chat is not at the sentinel afterwards: a
\* chat it finds at the sentinel goes to the player in a normal turn-advance
\* and to a participant other than the player in a delegated one (to the
\* player when there is no other), and nothing is thrown.
C20_FailedOracleGivesFallbackTurn ==
    [][\A k \in DOMAIN advances :
          advanceChatTurnReturn(k, FallbackTurn(advances[k].participants, Player,
                                                advances[k].isDelegation))
              => LET chatId == advances[k].chatId
                     others == Range(advances[k].participants) \ {Player}
                 IN  /\ gamePhase' # "CRASHED"
                     /\ gameState'.chats[chatId].currentSpeaker # null
                     /\ gameState.chats[chatId].currentSpeaker = null =>
                           IF advances[k].isDelegation /\ others # {}
                           THEN gameState'.chats[chatId].currentSpeaker \in others
                           ELSE gameState'.chats[chatId].currentSpeaker = Player]_vars

\* the oracle failed in a delegated turn-advance: the first of the other
\* participants has the turn and the fallback's message
C20_Witness ==
    \E chatId \in DOMAIN gameState.chats :
        /\ lastStep.op = "advanceChatTurn:apply"
        /\ lastStep.after = "handleDelegateTurn"
        /\ gameState.chats[chatId].participants = <<Player, Georgia>>
        /\ gameState.chats[chatId].currentSpeaker = Georgia
        /\ gameState.chats[chatId].messages
              = <<[sender |-> Georgia, text |-> "I will speak."]>>

\* C21: accepting a pending invitation that names an initiator and
\* participants removes that invitation and no other from pendingInvitations
\* and adds one chat, whose currentSpeaker is the initiator, or null when the
\* initiator is the player; declining removes that invitation and no other
\* and adds no chat; both leave every chat there was as it was.
C21_InvitationLeavesPending ==
    [][\A k \in DOMAIN gameState.pendingInvitations :
          LET invitation == gameState.pendingInvitations[k]
              added == DOMAIN gameState'.chats \ DOMAIN gameState.chats
          IN  /\ (/\ handleAcceptInvitation(k)
                  /\ Has(invitation, "chatInitiator")
                  /\ Has(invitation, "chatParticipants"))
                    => /\ gameState'.pendingInvitations
                             = RemoveAt(gameState.pendingInvitations, k)
                       /\ Cardinality(added) = 1
                       /\ \A id \in added :
                             gameState'.chats[id].currentSpeaker =
                                IF invitation.chatInitiator = Player
                                THEN null ELSE invitation.chatInitiator
                       /\ \A id \in DOMAIN gameState.chats :
                             gameState'.chats[id] = gameState.chats[id]
              /\ handleDeclineInvitation(k)
                    => /\ gameState'.pendingInvitations
                             = RemoveAt(gameState.pendingInvitations, k)
                       /\ gameState'.chats = gameState.chats]_vars

\* of two pending invitations that say the same the second has been accepted
\* beside a chat the player had opened; the first is still pending
C21_Witness ==
    /\ lastStep.op = "handleAcceptInvitation"
    /\ Cardinality(DOMAIN gameState.chats) = 2
    /\ Len(gameState.pendingInvitations) = 1
    /\ gameState.pendingInvitations[1].ref[2] = 1
    /\ AsReturned(gameState.pendingInvitations) = <<InviteFromGeorgia>>
    /\ gameState.chats[lastStep.chatId].currentSpeaker = Georgia

\* C22: whenever the simulation oracle fails or answers with something that is
\* not an event array, the batch handed to the fold is exactly the one synthetic
\* NARRATIVE event (no countries, dated December 31 of the current year), and
\* the commit of that batch adds one to year and leaves territories, countries,
\* cities, militaryUnits and arsenal as they were.
C22_FailureFoldsOneNarrative ==
    [][/\ \A r \in NoEventArray :
             handleSimulateReturn(r)
                => /\ fold'.pc = "running"
                   /\ AsReturned(fold'.events) = <<SimulationParadox(gameState.year)>>
       /\ (FoldCommit /\ AsReturned(fold.events) = <<SimulationParadox(gameState.year)>>)
             => /\ gameState'.year = gameState.year + 1
                /\ \A f \in {"territories", "countries", "cities", "militaryUnits", "arsenal"} :
                      gameState'[f] = gameState[f]]_vars

\* C22, the part the code keeps: a failed call and a parsed value that is not
\* an array are folded as the one synthetic NARRATIVE event, and that fold only
\* adds one to year.
C22_FailureOrNoArrayFoldsOneNarrative ==
    [][/\ \A r \in {x \in Responses : x.fails \/ ~x.isArray} :
             handleSimulateReturn(r)
                => /\ fold'.pc = "running"
                   /\ AsReturned(fold'.events) = <<SimulationParadox(gameState.year)>>
       /\ (FoldCommit /\ AsReturned(fold.events) = <<SimulationParadox(gameState.year)>>)
             => /\ gameState'.year = gameState.year + 1
                /\ \A f \in {"territories", "countries", "cities", "militaryUnits", "arsenal"} :
                      gameState'[f] = gameState[f]]_vars

\* a synthetic NARRATIVE event has been committed to the log
C22_ParadoxCommitted ==
    /\ fold.pc = "idle"
    /\ gameState.year = EpochYear + 1
    /\ gameState.events = <<[ref |-> <<EpochYear, 1>>] @@ SimulationParadox(EpochYear)>>

\* C23: a SPLIT outcome that lists the ordered unit and gives N new units
\* removes the ordered unit's id and adds exactly N units under ids the state
\* did not hold, each with the owner, type and coordinates of the ordered unit,
\* the default current order and a log of the one entry "Formed from split
\* command"; every other unit stays as it was.
C23_SplitReplacesUnitByParts ==
    [][\A outcome \in {SplitOutcome(id) : id \in DOMAIN gameState.militaryUnits} :
          (handleUnitOrderReturn(outcome) /\ order.unitId \in outcome.unitIdsToRemove)
             => LET units == gameState.militaryUnits
                    after == gameState'.militaryUnits
                    original == units[order.unitId]
                    added == DOMAIN after \ DOMAIN units
                IN  /\ order.unitId \notin DOMAIN after
                    /\ Cardinality(added) = Len(outcome.newUnitsToCreate)
                    /\ DOMAIN after = (DOMAIN units \ {order.unitId}) \cup added
                    /\ \A id \in added :
                          /\ after[id].id = id
                          /\ after[id].owner = original.owner
                          /\ after[id].type = original.type
                          /\ after[id].coordinates = original.coordinates
                          /\ after[id].currentOrder = "Awaiting orders."
                          /\ Len(after[id].ordersLog) = 1
                          /\ after[id].ordersLog[1].order = "Formed from split command"
                    /\ \A id \in DOMAIN units \ {order.unitId} : after[id] = units[id]]_vars

\* a unit that had been moved is split: its parts stand where it stood, beside
\* an untouched unit
C23_Witness ==
    /\ lastStep.op = "handleUnitOrder:SPLIT"
    /\ \E id \in DOMAIN gameState.militaryUnits :
          /\ id[2] = "split"
          /\ gameState.militaryUnits[id].coordinates = 1
    /\ \E id \in DOMAIN gameState.militaryUnits : id[2] \in UnitType
    /\ Cardinality({id \in DOMAIN gameState.militaryUnits : id[2] = "split"}) = SplitParts

\* C24: a MERGE outcome with unitIdsToRemove and mergedUnit removes every
\* listed unit id and adds exactly one unit, which has the owner, type and
\* coordinates of the instigating unit and the leader, composition and strength
\* of the outcome; afterwards no merged source unit remains, the instigating
\* unit included.
C24_MergeReplacesSourcesByOne ==
    [][\A outcome \in {MergeOf(ids) : ids \in SUBSET DOMAIN gameState.militaryUnits} :
          (handleUnitOrderReturn(outcome) /\ order.unitId \in DOMAIN gameState.militaryUnits)
             => LET units == gameState.militaryUnits
                    after == gameState'.militaryUnits
                    instigator == units[order.unitId]
                    added == DOMAIN after \ DOMAIN units
                IN  /\ outcome.unitIdsToRemove \cap DOMAIN after = {}
                    /\ Cardinality(added) = 1
                    /\ \A id \in added :
                          /\ after[id].owner = instigator.owner
                          /\ after[id].type = instigator.type
                          /\ after[id].coordinates = instigator.coordinates
                          /\ after[id].leader = outcome.mergedUnit.leader
                          /\ after[id].composition = outcome.mergedUnit.composition
                          /\ after[id].strength = outcome.mergedUnit.strength
                    /\ order.unitId \notin DOMAIN after]_vars

\* C24, the part the code keeps: the listed ids leave and one unit is added
\* with the instigating unit's owner, type and coordinates and the outcome's
\* leader, composition and strength.
C24_MergeRemovesListedAddsOne ==
    [][\A outcome \in {MergeOf(ids) : ids \in SUBSET DOMAIN gameState.militaryUnits} :
          (handleUnitOrderReturn(outcome) /\ order.unitId \in DOMAIN gameState.militaryUnits)
             => LET units == gameState.militaryUnits
                    after == gameState'.militaryUnits
                    instigator == units[order.unitId]
                    added == DOMAIN after \ DOMAIN units
                IN  /\ outcome.unitIdsToRemove \cap DOMAIN after = {}
                    /\ Cardinality(added) = 1
                    /\ \A id \in added :
                          /\ after[id].owner = instigator.owner
                          /\ after[id].type = instigator.type
                          /\ after[id].coordinates = instigator.coordinates
                          /\ after[id].leader = outcome.mergedUnit.leader
                          /\ after[id].composition = outcome.mergedUnit.composition
                          /\ after[id].strength = outcome.mergedUnit.strength]_vars

\* a merge has left its instigating unit beside the merged one
C24_InstigatorBesideMerged ==
    /\ lastStep.op = "handleUnitOrder:MERGE"
    /\ \E id \in DOMAIN gameState.militaryUnits : id[2] = "merged"
    /\ \E id \in DOMAIN gameState.militaryUnits :
          id[2] \in UnitType /\ gameState.militaryUnits[id].coordinates = 1

\* the CHAT_INVITATION events of the batch being folded, in batch order
BatchInvitations == SelectSeq(fold.events, LAMBDA e : e.type = "CHAT_INVITATION")

\* C25: the loop's step over a CHAT_INVITATION event changes no territory,
\* city, unit or arsenal, and the commit of a batch leaves pendingInvitations
\* as the invitations that were pending followed by the invitations of the
\* batch, in batch order, each once.
C25_InvitationsAreAppended ==
    [][/\ (FoldStep /\ CurrentEvent.type = "CHAT_INVITATION")
            => \A f \in {"territories", "cities", "militaryUnits", "arsenal"} :
                  fold'.state[f] = fold.state[f]
       /\ FoldCommit
            => gameState'.pendingInvitations
                  = gameState.pendingInvitations \o BatchInvitations]_vars

\* C25, the part the code keeps: the step over a CHAT_INVITATION changes no
\* territory, city, unit or arsenal, and the commit leaves the invitations that
\* were pending when the fold read the state, followed by those of the batch.
C25_InvitationsFollowThoseRead ==
    [][/\ (FoldStep /\ CurrentEvent.type = "CHAT_INVITATION")
            => \A f \in {"territories", "cities", "militaryUnits", "arsenal"} :
                  fold'.state[f] = fold.state[f]
       /\ FoldCommit
            => gameState'.pendingInvitations
                  = fold.prevState.pendingInvitations \o BatchInvitations]_vars

\* C26: handleLoadGame on a file that lacks countries or lacks year rejects the
\* load: gameState and gamePhase stay exactly as they were.
C26_LoadRejectsFilesWithoutCountriesOrYear ==
    [][\A file \in Files :
          (handleLoadGame(file) /\ ~({"countries", "year"} \subseteq file.has))
             => /\ gameState' = gameState
                /\ gamePhase' = gamePhase
                /\ lastStep'.op = "handleLoadGame:reject"]_vars

\* a load has been rejected in a game that holds a unit and a chat
C26_Witness ==
    /\ lastStep.op = "handleLoadGame:reject"
    /\ DOMAIN gameState.militaryUnits # {}
    /\ DOMAIN gameState.chats # {}

C30_RenamingRenamesAndRekeys ==
    [][(/\ FoldStep
        /\ CurrentEvent.type = "CITY_RENAMED"
        /\ Has(CurrentEvent, "cityName") /\ Has(CurrentEvent, "newCityName")
        /\ CurrentEvent.cityName # CurrentEvent.newCityName)
          => LET cities == fold.state.cities
                 after == fold'.state.cities
                 renamed == {i \in DOMAIN cities : cities[i].name = CurrentEvent.cityName}
             IN  /\ DOMAIN after = DOMAIN cities
                 /\ \A i \in renamed :
                       /\ after[i].name = CurrentEvent.newCityName
                       /\ after[i].id # cities[i].id
                       /\ after[i].id = <<CurrentEvent.newCityName, cities[i].territoryId, 0>>
                       /\ \A k \in DOMAIN cities[i] \ {"name", "id"} :
                             after[i][k] = cities[i][k]
                       /\ \A j \in DOMAIN after : after[j].id # cities[i].id
                 /\ \A i \in DOMAIN cities \ renamed : after[i] = cities[i]]_vars

\* two cities called Tbilisi, one of the first state and one founded in
\* Texas, have become Batumi beside a Houston that was left alone
C30_Witness ==
    /\ lastStep.op = "handleNewEvents:commit"
    /\ Len(gameState.cities) = 3
    /\ Cardinality({i \in DOMAIN gameState.cities :
                        gameState.cities[i].name = "Batumi"}) = 2
    /\ \E i \in DOMAIN gameState.cities : gameState.cities[i].id = <<"Batumi", "USA-48", 0>>
    /\ \E i \in DOMAIN gameState.cities : gameState.cities[i].name = "Houston"

\* TRUE when the sequence names holds the sequence before as its beginning
KeepsNames(before, names) ==
    Len(before) <= Len(names) /\ SubSeq(names, 1, Len(before)) = before

\* the step of the loop over a MANUFACTURE_COMPLETE event leaves every arsenal
\* entry but that of the first listed country and the event's unit type
ManufactureFrame ==
    (FoldStep /\ CurrentEvent.type = "MANUFACTURE_COMPLETE")
        => LET arsenal == fold.state.arsenal
               after == fold'.state.arsenal
           IN  /\ DOMAIN after = DOMAIN arsenal
               /\ \A c \in DOMAIN arsenal : \A t \in DOMAIN arsenal[c] :
                     \/ after[c][t] = arsenal[c][t]
                     \/ /\ Len(CurrentEvent.countries) >= 1
                        /\ c = CurrentEvent.countries[1]
                        /\ Has(CurrentEvent, "unitType") /\ t = CurrentEvent.unitType
                        /\ KeepsNames(arsenal[c][t].unitNames, after[c][t].unitNames)

\* C31: a MANUFACTURE_COMPLETE event only increases arsenal capacity: no
\* maxUnits is lower after the event's step than before it, every unitNames
\* holds the names it held, and only the entry of the first listed country and
\* the event's unit type changes.
C31_ManufactureOnlyIncreases ==
    [][/\ ManufactureFrame
       /\ (FoldStep /\ CurrentEvent.type = "MANUFACTURE_COMPLETE")
            => \A c \in DOMAIN fold.state.arsenal : \A t \in DOMAIN fold.state.arsenal[c] :
                  fold'.state.arsenal[c][t].maxUnits >= fold.state.arsenal[c][t].maxUnits]_vars

\* C31, the part the code keeps: names are kept and only the entry of the
\* first listed country and the event's unit type changes.
C31_ManufactureTouchesOneEntry == [][ManufactureFrame]_vars

\* C32: a turn-advance was suspended in its oracle call when an interrupt gave
\* the turn to the player and a delegation then set the sentinel again; when
\* it resumes, it discards its result: the chat stays as it is and no timer
\* is scheduled.
C32_OvertakenAdvanceDiscards ==
    [][\A k \in DOMAIN advances : \A turn \in GroupChatTurns(k) :
          (/\ lastStep.op = "handleDelegateTurn"
           /\ lastStep.after = "handleInterrupt"
           /\ k < Len(advances)
           /\ advances[k].chatId = lastStep.chatId
           /\ advanceChatTurnReturn(k, turn))
              => /\ gameState'.chats = gameState.chats
                 /\ timers' = timers]_vars

\* the turn-advance calls of chatId that are scheduled or await the oracle
AdvancesOf(chatId) ==
    Cardinality({k \in DOMAIN advances : advances[k].chatId = chatId})
    + Cardinality({k \in DOMAIN timers : timers[k].chatId = chatId})

\* C33: for each chat at most one turn-advance is in flight or scheduled.
C33_OneAdvancePerChat ==
    \A chatId \in DOMAIN gameState.chats : AdvancesOf(chatId) <= 1

\* a chat whose currentSpeaker is the sentinel has a turn-advance scheduled or
\* awaiting the oracle
SentinelHasAdvance ==
    \A chatId \in DOMAIN gameState.chats :
        gameState.chats[chatId].currentSpeaker = null => AdvancesOf(chatId) >= 1

\* chatId is a chat at the sentinel
AtSentinel(chatId) ==
    /\ chatId \in DOMAIN gameState.chats
    /\ gameState.chats[chatId].currentSpeaker = null

\* C34: every oracle call returning and every timer firing, a chat whose
\* currentSpeaker is the sentinel eventually leaves the sentinel, whatever
\* folds and loads happen meanwhile.
C34_SentinelIsLeft ==
    \A chatId \in {<<"chat", c>> : c \in -1..MaxClock} :
        AtSentinel(chatId) ~> ~AtSentinel(chatId)

\* C34, its premise: in every state a chat at the sentinel has a turn-advance
\* scheduled or in flight.
C34_SentinelAlwaysHasAdvance == []SentinelHasAdvance

\* C35: the unit an order was issued to is gone from militaryUnits when the
\* order's oracle call returns; applying the outcome, whatever its action
\* type, leaves militaryUnits as it is.
C35_OrderOnRemovedUnitIsInert ==
    [][(order.pc = "await" /\ order.unitId \notin DOMAIN gameState.militaryUnits)
          => \A outcome \in {SplitOutcome(order.unitId), MergeOutcome(order.unitId),
                              RelocateOutcome, RetreatNowhereOutcome, GeneralOrderOutcome} :
                handleUnitOrderReturn(outcome)
                    => gameState'.militaryUnits = gameState.militaryUnits]_vars

\* C35, the part the code keeps: an outcome that is neither SPLIT nor MERGE
\* leaves militaryUnits as it is when the ordered unit is gone.
C35_PlainOrderOnRemovedUnitIsInert ==
    [][(order.pc = "await" /\ order.unitId \notin DOMAIN gameState.militaryUnits)
          => \A outcome \in {RelocateOutcome, RetreatNowhereOutcome, GeneralOrderOutcome} :
                handleUnitOrderReturn(outcome)
                    => gameState'.militaryUnits = gameState.militaryUnits]_vars

\* the step leaves every unit that is not of `owner` in militaryUnits, as it is
KeepsUnitsOfOthers(owner) ==
    \A id \in DOMAIN gameState.militaryUnits :
        gameState.militaryUnits[id].owner # owner
            => /\ id \in DOMAIN gameState'.militaryUnits
               /\ gameState'.militaryUnits[id] = gameState.militaryUnits[id]

\* C36: resolving an order, with a SPLIT or a MERGE outcome listing any ids,
\* removes and modifies no unit of a country other than the ordered unit's
\* owner.
C36_OrderSparesForeignUnits ==
    [][order.pc = "await"
          => \A outcome \in {SplitOutcome(order.unitId)}
                    \cup {MergeOf(ids) : ids \in SUBSET DOMAIN gameState.militaryUnits} :
                handleUnitOrderReturn(outcome) => KeepsUnitsOfOthers(order.unit.owner)]_vars

\* C36, the part the code keeps: a SPLIT outcome removes and modifies no unit
\* of another country.
C36_SplitSparesForeignUnits ==
    [][order.pc = "await"
          => (handleUnitOrderReturn(SplitOutcome(order.unitId))
                => KeepsUnitsOfOthers(order.unit.owner))]_vars

\* C37: the economic effects of an event are applied to the state as it is
\* after the event's own handler has run, so that the effects a
\* COUNTRY_FORMATION carries for the country it forms reach that country.
C37_EffectsFollowHandler ==
    [][(FoldStep /\ CurrentEvent.type \notin {"DEPLOY_UNIT", "CITY_FOUNDED"})
          => fold'.state =
                processEconomicEffects(SyncHandler(fold.state, CurrentEvent, 0),
                                       CurrentEvent)]_vars

\* C37, as the code has it: the handler runs on the state the effects have
\* been applied to.
C37_HandlerFollowsEffects ==
    [][(FoldStep /\ CurrentEvent.type \notin {"DEPLOY_UNIT", "CITY_FOUNDED"})
          => fold'.state =
                SyncHandler(processEconomicEffects(fold.state, CurrentEvent),
                            CurrentEvent, 0)]_vars

\* the step gives every territory whose name the event lists to newOwner
EveryNamedGoesTo(newOwner) ==
    \A id \in TerritoryIds :
        fold.state.territories[id].name \in Listed(CurrentEvent)
            => fold'.state.territories[id].owner = newOwner

\* the step gives, for each listed name, a territory of that name to newOwner
SomeNamedGoesTo(newOwner) ==
    \A name \in Listed(CurrentEvent) :
        (\E id \in TerritoryIds : fold.state.territories[id].name = name)
            => \E id \in TerritoryIds :
                    /\ fold.state.territories[id].name = name
                    /\ fold'.state.territories[id].owner = newOwner

\* C38: an ANNEXATION of two countries or a COUNTRY_FORMATION that lists
\* territory names reassigns every territory bearing a listed name, also when
\* several territories bear it.
C38_EveryBearerIsReassigned ==
    [][/\ (AnnexationStep /\ Len(CurrentEvent.countries) = 2)
            => EveryNamedGoesTo(CurrentEvent.countries[1])
       /\ FormationStep => EveryNamedGoesTo(CurrentEvent.newCountryName)]_vars

\* C38, as the code has it: one territory of each listed name is reassigned.
C38_OneBearerIsReassigned ==
    [][/\ (AnnexationStep /\ Len(CurrentEvent.countries) = 2)
            => SomeNamedGoesTo(CurrentEvent.countries[1])
       /\ FormationStep => SomeNamedGoesTo(CurrentEvent.newCountryName)]_vars

\* C39: in every state every key of countries has an arsenal entry with all
\* three unit types.
C39_EveryCountryHasArsenal ==
    \A c \in DOMAIN gameState.countries :
        /\ c \in DOMAIN gameState.arsenal
        /\ DOMAIN gameState.arsenal[c] = UnitType

\* C40: in every state the ids of the cities are pairwise distinct.
C40_CityIdsAreDistinct ==
    \A i, j \in DOMAIN gameState.cities :
        i # j => gameState.cities[i].id # gameState.cities[j].id

====
